---- MODULE Spec2Model ----
(***************************************************************************)
(* Model of the shared HTTP access layer of the arbetsformedlingen MCP      *)
(* server: src/src/services/apiClient.ts (fetchJson, postJson, ApiError     *)
(* and the per-upstream wrappers).  One logical call is followed from the   *)
(* wrapper through every attempt, backoff wait, timer and body read to the  *)
(* settlement of its promise.  Time is explicit (milliseconds).             *)
(***************************************************************************)
EXTENDS Integers, Sequences, FiniteSets, TLC

(* ---------------------------- bounds ---------------------------------- *)

\* Largest retry budget a direct caller of the exported postJson passes.
MaxRetries == 4

\* Granularity with which the model lets time pass between timer events.
TickMs == 5000

(* ------------------------ program constants --------------------------- *)

\* `retries = 3` default parameter of fetchJson and postJson.
DefaultRetries == 3

\* setTimeout(() => controller.abort(), 10_000)
TimeoutMs == 10000

\* the factor 1000 of both backoff formulas
BackoffUnitMs == 1000

(* --------------------------- input domains ---------------------------- *)

FetchWrappers ==
  {"jobSearchFetch", "jobStreamFetch", "historicalFetch", "linksFetch",
   "jobEdFetch", "taxonomyFetch"}

PostWrappers == {"jobEdPost", "enrichmentPost"}

\* A URL of the upstream each wrapper is used for, as the build*Url helpers
\* hand it over; a direct caller of postJson passes its own.
UrlOf(w) ==
  CASE w = "jobSearchFetch" -> "https://jobsearch.api.jobtechdev.se/search?q=nurse"
    [] w = "jobStreamFetch" -> "https://jobstream.api.jobtechdev.se/v2/stream"
    [] w = "historicalFetch" -> "https://historical.api.jobtechdev.se/search"
    [] w = "linksFetch" -> "https://links.api.jobtechdev.se/joblinks"
    [] w = "jobEdFetch" -> "https://jobed-connect-api.jobtechdev.se/v1/occupations"
    [] w = "taxonomyFetch" -> "https://taxonomy.api.jobtechdev.se/v1/taxonomy/main/concepts"
    [] w = "jobEdPost" -> "https://jobed-connect-api.jobtechdev.se/v1/match"
    [] w = "enrichmentPost" -> "https://jobad-enrichments-api.jobtechdev.se/enrichtextdocuments"
    [] OTHER -> "https://example.com/post"

ReqBodies == {"{\"text\":\"nurse\"}", "{\"ids\":[1]}"}

\* Status codes the upstream may answer with.
Statuses == {200, 201, 304, 404, 429, 500, 503}

\* Response bodies, as token sequences of the JSON text.
BodyObj == << "{", "\"ok\"", ":", "true", "}" >>
BodyArr == << "[", "1", ",", "2", "]" >>
BodyEmptyArr == << "[", "]" >>
BodyTruncated == << "[", "1", "," >>
BodyEmpty == << >>

Bodies == {BodyObj, BodyArr, BodyEmptyArr, BodyTruncated, BodyEmpty}

\* The payloads an upstream sends along with a non-2xx status.
ErrorBodies == {BodyObj, BodyEmpty}

BodiesOf(status) ==
  IF status >= 200 /\ status <= 299 THEN Bodies ELSE ErrorBodies

(* ------------------------------ JSON ---------------------------------- *)

StringToks == {"\"ok\"", "\"id\"", "\"taxonomy/id\"", "\"i46j\""}
NumToks == {"0", "1", "2"}

NumOf(t) == CASE t = "0" -> 0 [] t = "1" -> 1 [] t = "2" -> 2 [] OTHER -> 0

JVal(t, n, s, keys, items) ==
  [t |-> t, n |-> n, s |-> s, keys |-> keys, items |-> items]

JUndefined == JVal("undefined", 0, "", << >>, << >>)
JNull == JVal("null", 0, "", << >>, << >>)
JBool(b) == JVal(IF b THEN "true" ELSE "false", 0, "", << >>, << >>)
JNum(n) == JVal("number", n, "", << >>, << >>)
JStr(s) == JVal("string", 0, s, << >>, << >>)
JArr(items) == JVal("array", 0, "", << >>, items)
JObj(keys, items) == JVal("object", 0, "", keys, items)

PFail == [ok |-> FALSE, val |-> JUndefined, next |-> 0]
POk(v, next) == [ok |-> TRUE, val |-> v, next |-> next]

Tok(toks, i) == IF i >= 1 /\ i <= Len(toks) THEN toks[i] ELSE "<eof>"

RECURSIVE ParseValue(_, _)
RECURSIVE ParseElems(_, _, _)
RECURSIVE ParseMembers(_, _, _, _)

\* elements of an array after "[" or ",": value ("," value)* "]"
ParseElems(toks, i, acc) ==
  LET r == ParseValue(toks, i) IN
  IF ~r.ok THEN PFail
  ELSE IF Tok(toks, r.next) = "]" THEN POk(JArr(Append(acc, r.val)), r.next + 1)
  ELSE IF Tok(toks, r.next) = "," THEN ParseElems(toks, r.next + 1, Append(acc, r.val))
  ELSE PFail

\* members of an object after "{" or ",": string ":" value ("," ...)* "}"
ParseMembers(toks, i, keys, vals) ==
  IF Tok(toks, i) \notin StringToks \/ Tok(toks, i + 1) # ":" THEN PFail
  ELSE LET r == ParseValue(toks, i + 2) IN
    IF ~r.ok THEN PFail
    ELSE IF Tok(toks, r.next) = "}"
      THEN POk(JObj(Append(keys, toks[i]), Append(vals, r.val)), r.next + 1)
    ELSE IF Tok(toks, r.next) = ","
      THEN ParseMembers(toks, r.next + 1, Append(keys, toks[i]), Append(vals, r.val))
    ELSE PFail

ParseValue(toks, i) ==
  LET t == Tok(toks, i) IN
  CASE t = "true" -> POk(JBool(TRUE), i + 1)
    [] t = "false" -> POk(JBool(FALSE), i + 1)
    [] t = "null" -> POk(JNull, i + 1)
    [] t \in NumToks -> POk(JNum(NumOf(t)), i + 1)
    [] t \in StringToks -> POk(JStr(t), i + 1)
    [] t = "[" -> IF Tok(toks, i + 1) = "]" THEN POk(JArr(<< >>), i + 2)
                  ELSE ParseElems(toks, i + 1, << >>)
    [] t = "{" -> IF Tok(toks, i + 1) = "}" THEN POk(JObj(<< >>, << >>), i + 2)
                  ELSE ParseMembers(toks, i + 1, << >>, << >>)
    [] OTHER -> PFail

\* response.json(): the whole text must be one JSON value.
JsonParse(toks) ==
  LET r == ParseValue(toks, 1) IN
  IF r.ok /\ r.next = Len(toks) + 1 THEN r ELSE PFail


(* ----------------------------- errors --------------------------------- *)

\* An error object: `props` are the own properties a caller can read besides
\* name and message (statusCode and endpoint exist on ApiError only).
ErrorObject(name, message, statusCode, endpoint, props) ==
  [name |-> name, message |-> message, statusCode |-> statusCode,
   endpoint |-> endpoint, props |-> props]

NoError == ErrorObject("none", "", -1, "", {})

\* mutant: the constructor does not keep the endpoint
ApiErrorNoEndpoint(message, statusCode, endpoint) ==
  ErrorObject("ApiError", message, statusCode, "", {"statusCode"})

\* class ApiError extends Error { constructor(message, statusCode, endpoint) }
ApiError(message, statusCode, endpoint) ==
  ErrorObject("ApiError", message, statusCode, endpoint, {"statusCode", "endpoint"})

\* What the runtime's fetch rejects with when its signal is aborted.
AbortError == ErrorObject("AbortError", "This operation was aborted", -1, "", {})

\* What the runtime's fetch rejects with on a DNS or connection failure.
FetchFailed == ErrorObject("TypeError", "fetch failed", -1, "", {})

\* What response.json() rejects with on a body that is not JSON.
JsonSyntaxError == ErrorObject("SyntaxError", "Unexpected end of JSON input", -1, "", {})

\* What response.json() rejects with when the body stream breaks.
BodyTerminated == ErrorObject("TypeError", "terminated", -1, "", {})

(* -------------------- the decisions of one attempt -------------------- *)

\* mutant: the 429 branch is missing
IsRateLimitedNever(status) == FALSE

\* if (response.status === 429)
IsRateLimited(status) == status = 429

\* mutant: the retry test forgets the budget
ShouldRetryNoBudget(status, retries) == status >= 500

\* if (response.status >= 500 && retries > 0)
\* mutant: every error status is retried while budget remains
ShouldRetryAnyError(status, retries) == status >= 400 /\ retries > 0

ShouldRetry(status, retries) == status >= 500 /\ retries > 0

\* mutant: the linear backoff counts from zero
FetchDelayFromZero(retries) == (3 - retries) * BackoffUnitMs

\* const delay = (4 - retries) * 1000; // 1s, 2s, 3s
FetchDelay(retries) == (4 - retries) * BackoffUnitMs

\* mutant: postJson copies the linear backoff of fetchJson
PostDelayLinear(retries) == (4 - retries) * BackoffUnitMs

\* const delay = Math.pow(2, 3 - retries) * 1000;
PostDelay(retries) ==
  IF retries <= 3 THEN (2 ^ (3 - retries)) * BackoffUnitMs
  ELSE BackoffUnitMs \div (2 ^ (retries - 3))

BackoffDelay(method, retries) ==
  IF method = "GET" THEN FetchDelay(retries) ELSE PostDelay(retries)

\* setTimeout(cb, ms) waits at least 1 ms.
TimerDelay(ms) == IF ms < 1 THEN 1 ELSE ms

\* mutant: redirects and not-modified count as success
ResponseOkBelow400(status) == status < 400

\* mutant: only 200 counts as success
ResponseOkOnly200(status) == status = 200

\* response.ok
ResponseOk(status) == status >= 200 /\ status <= 299

\* new ApiError("Rate limit reached ...", 429, url)
RateLimitError(url) == ApiError("Rate limit reached", 429, url)

\* new ApiError(`API request failed: ${status} ...`, response.status, url)
StatusError(method, status, url) ==
  ApiError(IF method = "GET" THEN "API request failed" ELSE "POST API request failed",
           status, url)

\* new ApiError(`Timeout after 10s for ${url}`, 0, url)
TimeoutError(url) == ApiError("Timeout after 10s", 0, url)

\* mutant: the catch clause wraps every error into an ApiError
CatchClauseWrapAll(err, url) ==
  IF err.name = "AbortError" THEN TimeoutError(url)
  ELSE IF err.name = "ApiError" THEN err
  ELSE ApiError(err.message, 0, url)

\* mutant: the catch clause rethrows the abort as it is
CatchClauseRethrow(err, url) == err

\* catch (err) { if (err instanceof Error && err.name === "AbortError") throw ...; throw err; }
CatchClause(err, url) ==
  IF err.name = "AbortError" THEN TimeoutError(url) ELSE err

\* mutant: the catch clause swallows what is not an abort
CatchOutcomeSwallow(err, url) ==
  IF err.name = "AbortError"
    THEN [kind |-> "rejected", value |-> JUndefined, error |-> TimeoutError(url)]
    ELSE [kind |-> "resolved", value |-> JUndefined, error |-> NoError]

\* The settlement a throw inside the try block leads to: the catch clause
\* rethrows, so the promise of the async function rejects.
CatchOutcome(err, url) ==
  [kind |-> "rejected", value |-> JUndefined, error |-> CatchClause(err, url)]

\* request headers of the two operations
Headers(method) ==
  IF method = "GET" THEN {"accept"} ELSE {"Content-Type", "accept"}

(* ------------------------------ state --------------------------------- *)

VARIABLES
  pc,            \* "idle", "fetching", "backoff", "body", "done"
  call,          \* the logical call: method, url, body, via, budget
  retries,       \* the `retries` argument of the innermost invocation
  now,           \* the clock, ms
  startedAt,     \* when the innermost invocation issued its fetch
  abortTimers,   \* abortTimers[k]: the 10 s timer of attempt k
  backoffTimers, \* backoffTimers[k]: the backoff timer armed after attempt k
  response,      \* the response the innermost invocation holds
  respAt,        \* when that response arrived
  attempts,      \* the network attempts made, in order
  thrown,        \* the errors raised inside the invocations, in order
  outcome,       \* the settlement of the call's promise
  settles,       \* how many times the call's promise was settled
  calls,         \* the calls in flight side by side, by call id
  handler,       \* the tool handler that is running and its response
  run            \* an operation applied to given inputs, and its result

vars ==
  << pc, call, retries, now, startedAt, abortTimers, backoffTimers, response, respAt,
     attempts, thrown, outcome, settles >>

\* What the single-call view leaves alone.
others == << calls, handler, run >>

allVars == << vars, others >>

NoHandler == [tool |-> "none"]
NoRun == [op |-> "none"]

OthersIdle ==
  /\ calls = << >>
  /\ handler = NoHandler
  /\ run = NoRun

NoCall == [method |-> "none", url |-> "", body |-> "", via |-> "none", budget |-> 0]
NoResponse == [status |-> 0, body |-> << >>]
Pending == [kind |-> "pending", value |-> JUndefined, error |-> NoError]
Resolved(v) == [kind |-> "resolved", value |-> v, error |-> NoError]
Rejected(e) == [kind |-> "rejected", value |-> JUndefined, error |-> e]

Armed(due) == [st |-> "armed", due |-> due]
Fired == [st |-> "fired", due |-> 0]
Cleared == [st |-> "cleared", due |-> 0]

\* mutant: one deadline for the whole call, counted from its start
AbortTimerOfCall(start) == [st |-> "armed", due |-> TimeoutMs]

\* const timeout = setTimeout(() => controller.abort(), 10_000), armed by
\* each invocation for its own controller.
AbortTimer(start) == Armed(start + TimeoutMs)

\* mutant: the finally block is missing
ClearTimeoutNever(timers, k) == timers

\* mutant: the timer stays armed while the body is read
ClearTimeoutAfterBody(timers, k) ==
  IF timers[k].st = "armed" /\ ~(pc = "fetching" /\ pc' = "body")
    THEN [timers EXCEPT ![k] = Cleared]
    ELSE timers

\* clearTimeout(timeout): stops an armed timer, no effect on a fired one.
ClearTimeout(timers, k) ==
  IF timers[k].st = "armed" THEN [timers EXCEPT ![k] = Cleared] ELSE timers

Attempt(c, r, delay, gap) ==
  [method |-> c.method, url |-> c.url, headers |-> Headers(c.method),
   body |-> c.body, retries |-> r, delay |-> delay, gap |-> gap,
   result |-> "pending", status |-> 0]

Answered(atts, result, status) ==
  [atts EXCEPT ![Len(atts)].result = result, ![Len(atts)].status = status]

\* No call has been made yet.
CoreIdle ==
  /\ pc = "idle"
  /\ call = NoCall
  /\ retries = 0
  /\ now = 0
  /\ startedAt = 0
  /\ abortTimers = << >>
  /\ backoffTimers = << >>
  /\ response = NoResponse
  /\ respAt = 0
  /\ attempts = << >>
  /\ thrown = << >>
  /\ outcome = Pending
  /\ settles = 0

Init ==
  /\ CoreIdle
  /\ OthersIdle

(* ----------------------------- actions -------------------------------- *)

\* The first invocation of fetchJson/postJson: arm the timer, issue the fetch.
Invoke(c) ==
  /\ pc = "idle"
  /\ pc' = "fetching"
  /\ call' = c
  /\ retries' = c.budget
  /\ startedAt' = now
  /\ abortTimers' = Append(abortTimers, AbortTimer(now))
  /\ attempts' = Append(attempts, Attempt(c, c.budget, 0, 0))
  /\ UNCHANGED << now, backoffTimers, response, respAt, thrown, outcome, settles >>
  /\ UNCHANGED others

\* jobSearchFetch, jobStreamFetch, ...: fetchJson<T>(url)
WrapperFetch ==
  \E w \in FetchWrappers :
    Invoke([method |-> "GET", url |-> UrlOf(w), body |-> "", via |-> w,
            budget |-> DefaultRetries])

\* jobEdPost, enrichmentPost: postJson<T>(url, body)
WrapperPost ==
  \E w \in PostWrappers, b \in ReqBodies :
    Invoke([method |-> "POST", url |-> UrlOf(w), body |-> b, via |-> w,
            budget |-> DefaultRetries])

\* the exported postJson called with an explicit budget
PostJsonDirect ==
  \E r \in 0..MaxRetries :
    Invoke([method |-> "POST", url |-> UrlOf("postJson"), body |-> "{\"ids\":[1]}", via |-> "postJson",
            budget |-> r])

\* An error thrown inside the try block of the innermost invocation: the
\* catch clause maps it, finally clears the timer, the promise rejects.
Throw(err) ==
  /\ pc' = "done"
  /\ thrown' = Append(thrown, err)
  /\ outcome' = CatchOutcome(err, call.url)
  /\ settles' = settles + 1
  /\ abortTimers' = ClearTimeout(abortTimers, Len(abortTimers))

\* The continuation after `await fetch(...)` when a response arrives.
FetchResponds ==
  \E status \in Statuses : \E body \in BodiesOf(status) :
    /\ pc = "fetching"
    /\ response' = [status |-> status, body |-> body]
    /\ respAt' = now
    /\ attempts' = Answered(attempts, "response", status)
    /\ IF IsRateLimited(status)
         THEN /\ Throw(RateLimitError(call.url))
              /\ UNCHANGED backoffTimers
       ELSE IF ShouldRetry(status, retries)
         THEN /\ pc' = "backoff"
              /\ backoffTimers' =
                   Append(backoffTimers,
                          Armed(now + TimerDelay(BackoffDelay(call.method, retries))))
              /\ UNCHANGED << abortTimers, thrown, outcome, settles >>
       ELSE IF ~ResponseOk(status)
         THEN /\ Throw(StatusError(call.method, status, call.url))
              /\ UNCHANGED backoffTimers
       ELSE /\ pc' = "body"
            /\ abortTimers' = ClearTimeout(abortTimers, Len(abortTimers))
            /\ UNCHANGED << backoffTimers, thrown, outcome, settles >>
    /\ UNCHANGED << call, retries, now, startedAt >>
    /\ UNCHANGED others

\* fetch rejects below the HTTP layer (DNS, connection).
FetchFails ==
  /\ pc = "fetching"
  /\ attempts' = Answered(attempts, "neterror", 0)
  /\ Throw(FetchFailed)
  /\ UNCHANGED << call, retries, now, startedAt, backoffTimers, response, respAt >>
  /\ UNCHANGED others

\* A 10 s timer comes due: controller.abort().  The fetch of that attempt, if
\* still in flight, rejects with AbortError; otherwise nothing listens.
AbortTimerFires ==
  \E k \in 1..Len(abortTimers) :
    /\ abortTimers[k].st = "armed"
    /\ abortTimers[k].due <= now
    /\ IF pc = "fetching" /\ k = Len(attempts)
         THEN /\ attempts' = Answered(attempts, "aborted", 0)
              /\ pc' = "done"
              /\ thrown' = Append(thrown, AbortError)
              /\ outcome' = CatchOutcome(AbortError, call.url)
              /\ settles' = settles + 1
              /\ abortTimers' = [abortTimers EXCEPT ![k] = Fired]
         ELSE /\ abortTimers' = [abortTimers EXCEPT ![k] = Fired]
              /\ UNCHANGED << pc, attempts, thrown, outcome, settles >>
    /\ UNCHANGED << call, retries, now, startedAt, backoffTimers, response, respAt >>
    /\ UNCHANGED others

\* The backoff wait ends: return fetchJson(url, retries - 1) starts the next
\* attempt with its own controller and timer, then the outer finally runs.
BackoffElapses ==
  LET n == Len(attempts) IN
  /\ pc = "backoff"
  /\ backoffTimers[n].st = "armed"
  /\ backoffTimers[n].due <= now
  /\ pc' = "fetching"
  /\ backoffTimers' = [backoffTimers EXCEPT ![n] = Fired]
  /\ retries' = retries - 1
  /\ attempts' =
       Append(attempts,
              Attempt(call, retries - 1, BackoffDelay(call.method, retries),
                      now - respAt))
  /\ abortTimers' = Append(ClearTimeout(abortTimers, n), AbortTimer(now))
  /\ response' = NoResponse
  /\ startedAt' = now
  /\ UNCHANGED << call, now, respAt, thrown, outcome, settles >>
  /\ UNCHANGED others

\* response.json() completes on the body of the 2xx response.
BodyRead ==
  /\ pc = "body"
  /\ pc' = "done"
  /\ LET r == JsonParse(response.body) IN
       IF r.ok
         THEN /\ outcome' = Resolved(r.val)
              /\ UNCHANGED thrown
         ELSE /\ outcome' = Rejected(JsonSyntaxError)
              /\ thrown' = Append(thrown, JsonSyntaxError)
  /\ settles' = settles + 1
  /\ UNCHANGED << call, retries, now, startedAt, abortTimers, backoffTimers,
                  response, respAt, attempts >>
  /\ UNCHANGED others

\* The body stream breaks while response.json() reads it.
BodyReadFails ==
  /\ pc = "body"
  /\ pc' = "done"
  /\ outcome' = Rejected(BodyTerminated)
  /\ thrown' = Append(thrown, BodyTerminated)
  /\ settles' = settles + 1
  /\ UNCHANGED << call, retries, now, startedAt, abortTimers, backoffTimers,
                  response, respAt, attempts >>
  /\ UNCHANGED others

ArmedDues ==
  {abortTimers[k].due : k \in {i \in 1..Len(abortTimers) : abortTimers[i].st = "armed"}}
  \cup
  {backoffTimers[k].due : k \in {i \in 1..Len(backoffTimers) : backoffTimers[i].st = "armed"}}

MinOf(S) == CHOOSE m \in S : \A x \in S : m <= x

\* Time passes, never past a timer that is due (timers fire on time).
Tick ==
  /\ ArmedDues # {}
  /\ \A d \in ArmedDues : d > now
  /\ now' = MinOf({now + TickMs} \cup ArmedDues)
  /\ UNCHANGED << pc, call, retries, startedAt, abortTimers, backoffTimers,
                  response, respAt, attempts, thrown, outcome, settles >>
  /\ UNCHANGED others

Next ==
  \/ WrapperFetch
  \/ WrapperPost
  \/ PostJsonDirect
  \/ FetchResponds
  \/ FetchFails
  \/ AbortTimerFires
  \/ BackoffElapses
  \/ BodyRead
  \/ BodyReadFails
  \/ Tick

Spec == Init /\ [][Next]_allVars

(* --------------------------- properties ------------------------------- *)

N == Len(attempts)

Settled == pc = "done"

ViaWrapper == call.via \in FetchWrappers \cup PostWrappers

\* The values the sample bodies denote, written out by hand.
ValidBodies == {BodyObj, BodyArr, BodyEmptyArr}

ExpectedJson(body) ==
  CASE body = BodyObj -> JObj(<< "\"ok\"" >>, << JBool(TRUE) >>)
    [] body = BodyArr -> JArr(<< JNum(1), JNum(2) >>)
    [] body = BodyEmptyArr -> JArr(<< >>)
    [] OTHER -> JUndefined

\* The body of the response arrived completely.
BodyArrived == \A i \in 1..Len(thrown) : thrown[i] # BodyTerminated

\* An ApiError with this message, status code and URL rejected the call.
RejectedWithApiError(message, statusCode, url) ==
  /\ outcome.kind = "rejected"
  /\ outcome.error.name = "ApiError"
  /\ outcome.error.message = message
  /\ {"statusCode", "endpoint"} \subseteq outcome.error.props
  /\ outcome.error.statusCode = statusCode
  /\ outcome.error.endpoint = url

Is5xxAnswer(k) == attempts[k].result = "response" /\ attempts[k].status >= 500

Is2xxAnswer(k) ==
  /\ attempts[k].result = "response"
  /\ attempts[k].status >= 200
  /\ attempts[k].status <= 299

RECURSIVE SumGaps(_)
\* The forced waits before attempts 2..k, as they passed on the clock.
SumGaps(k) == IF k <= 1 THEN 0 ELSE attempts[k].gap + SumGaps(k - 1)

RECURSIVE SumDelays(_)
\* The waits requested before attempts 2..k.
SumDelays(k) == IF k <= 1 THEN 0 ELSE attempts[k].delay + SumDelays(k - 1)

MinInt(a, b) == IF a <= b THEN a ELSE b

\* C1: an attempt answered 429 is the last attempt of its call; the call is
\* settled at once, rejected with the rate-limit ApiError (status code 429,
\* the call's URL), so a 429 on the first attempt means one attempt in all.
C1_RateLimitedNoRetry ==
  \A k \in 1..N :
    (attempts[k].result = "response" /\ attempts[k].status = 429) =>
      /\ k = N
      /\ Settled
      /\ settles = 1
      /\ RejectedWithApiError("Rate limit reached", 429, call.url)

\* C1 witness: 429 on the first attempt of a call that had budget left.
C1_Witness ==
  /\ Settled
  /\ N = 1
  /\ call.budget = DefaultRetries
  /\ attempts[1].result = "response"
  /\ attempts[1].status = 429

\* C2 as claimed: when every attempt was answered with a status >= 500, the
\* settled call has made exactly min(1 + budget, 4) attempts and is rejected
\* with the last status code.
C2_AttemptsCappedAtFour ==
  (Settled /\ \A k \in 1..N : Is5xxAnswer(k)) =>
    /\ N = MinInt(1 + call.budget, 4)
    /\ outcome.kind = "rejected"
    /\ outcome.error.statusCode = attempts[N].status

\* C3: with budget 3 the k-th retry was requested to wait k * 1000 ms (GET)
\* or 2^(k-1) * 1000 ms (POST) and started no earlier than that after the
\* failed answer was received.
C3_BackoffWaits ==
  call.budget = 3 =>
    \A k \in 1..(N - 1) :
      LET wait == IF call.method = "GET" THEN k * 1000 ELSE (2 ^ (k - 1)) * 1000
      IN /\ Is5xxAnswer(k)
         /\ attempts[k + 1].delay = wait
         /\ attempts[k + 1].gap >= wait

\* C3 witness: a POST with budget 3 that made all three retries.
C3_Witness ==
  /\ call.budget = 3
  /\ call.method = "POST"
  /\ N = 4

\* C4: a call issued through one of the wrappers never makes more than 4
\* network attempts.
C4_AtMostFourAttempts == ViaWrapper => N <= 4

\* C4 witness: a wrapper call that used all 4 attempts and settled.
C4_Witness == ViaWrapper /\ N = 4 /\ Settled

\* C5: an attempt cut off by its timer is the last one; the call is rejected
\* with the timeout ApiError (status code 0, the URL), 10 s after that
\* attempt started, whatever budget was left.
C5_TimeoutTerminal ==
  /\ \A k \in 1..N :
       attempts[k].result = "aborted" =>
         /\ k = N
         /\ Settled
         /\ settles = 1
         /\ RejectedWithApiError("Timeout after 10s", 0, call.url)
         /\ now - startedAt >= 10000
         /\ abortTimers[k].st = "fired"
  /\ \A k \in 1..N :
       (abortTimers[k].st = "fired" /\ attempts[k].result # "response")
         => attempts[k].result = "aborted"

\* C5 witness: a retry attempt timed out while budget remained.
C5_Witness ==
  /\ N = 2
  /\ attempts[2].result = "aborted"
  /\ retries >= 1
  /\ Settled

\* C6 as claimed: every rejection carries a status code and the URL.
C6_EveryFailureHasStatusAndUrl ==
  outcome.kind = "rejected" =>
    /\ {"statusCode", "endpoint"} \subseteq outcome.error.props
    /\ outcome.error.endpoint = call.url

\* C6 amended: a rejection caused by an HTTP answer or by the timeout is an
\* ApiError carrying that status code (0 for the timeout) and the URL; an
\* error of the runtime (transport failure, body read or parse failure) is
\* passed on as it is and carries neither.
C6_ApiErrorsHaveStatusAndUrl ==
  outcome.kind = "rejected" =>
    IF attempts[N].result = "aborted" \/
       (attempts[N].result = "response" /\ ~Is2xxAnswer(N))
      THEN /\ outcome.error.name = "ApiError"
           /\ {"statusCode", "endpoint"} \subseteq outcome.error.props
           /\ outcome.error.endpoint = call.url
           /\ outcome.error.statusCode =
                (IF attempts[N].result = "aborted" THEN 0 ELSE attempts[N].status)
      ELSE /\ outcome.error.name # "ApiError"
           /\ outcome.error.props = {}

\* C6 witness: a rejection with an exhausted 5xx after retries.
C6_Witness ==
  /\ outcome.kind = "rejected"
  /\ N = 4
  /\ Is5xxAnswer(N)
  /\ outcome.error.endpoint = call.url

\* C7: an answer that is not 2xx, not 429 and not a 5xx with budget left ends
\* the call: no later attempt, rejected with the request-failed ApiError that
\* carries exactly that status and the URL.
C7_HttpStatusError ==
  \A k \in 1..N :
    ( /\ attempts[k].result = "response"
      /\ (attempts[k].status < 200 \/ attempts[k].status > 299)
      /\ attempts[k].status # 429
      /\ ~(attempts[k].status >= 500 /\ attempts[k].retries > 0) ) =>
      /\ k = N
      /\ Settled
      /\ settles = 1
      /\ RejectedWithApiError(
           IF call.method = "GET" THEN "API request failed"
           ELSE "POST API request failed",
           attempts[k].status, call.url)

\* C7 witness: a 5xx answer to a call whose budget was 0 from the start.
C7_Witness ==
  /\ Settled
  /\ call.budget = 0
  /\ N = 1
  /\ Is5xxAnswer(1)

\* C8: a GET with budget 3 whose last answer is a 2xx with a valid JSON body
\* resolves with the value of that body; all k earlier answers were 5xx,
\* k <= 3, k + 1 attempts were made, and the waits before the successful
\* attempt add up to 1000 + ... + k * 1000 ms.
C8_RetriesThenSuccess ==
  ( /\ Settled
    /\ call.method = "GET"
    /\ call.budget = 3
    /\ Is2xxAnswer(N)
    /\ response.body \in ValidBodies
    /\ BodyArrived ) =>
    /\ outcome = Resolved(ExpectedJson(response.body))
    /\ \A j \in 1..(N - 1) : Is5xxAnswer(j)
    /\ N - 1 <= 3
    /\ SumDelays(N) = ((N - 1) * N * 1000) \div 2
    /\ SumGaps(N) >= SumDelays(N)

\* C8 witness: 5xx twice, then 200 with {"ok":true}: three attempts, 3000 ms.
C8_Witness ==
  /\ Settled
  /\ call.method = "GET"
  /\ N = 3
  /\ attempts[3].status = 200
  /\ response.body = BodyObj
  /\ outcome.kind = "resolved"
  /\ SumGaps(3) = 3000

\* C9: a 2xx answer is the last attempt of its call, and when its body is
\* valid JSON the call resolves with the value of that body, object or array.
C9_ResolvesWithParsedBody ==
  \A k \in 1..N :
    Is2xxAnswer(k) =>
      /\ k = N
      /\ pc \in {"body", "done"}
      /\ (Settled /\ response.body \in ValidBodies /\ BodyArrived) =>
           /\ outcome = Resolved(ExpectedJson(response.body))
           /\ settles = 1

\* C9 witness: a POST resolved with the array [1,2] sent with status 201.
C9_Witness ==
  /\ Settled
  /\ call.method = "POST"
  /\ attempts[N].status = 201
  /\ outcome.kind = "resolved"
  /\ outcome.value = JArr(<< JNum(1), JNum(2) >>)

\* C10: a call is settled exactly once, when it is done; it is rejected
\* exactly when an error was raised in one of its attempts, with that error
\* (the abort as the timeout error), and resolved only after a 2xx answer
\* with no error raised.
C10_OneOutcome ==
  /\ settles <= 1
  /\ Settled <=> settles = 1
  /\ Settled <=> outcome.kind # "pending"
  /\ outcome.kind \in {"pending", "resolved", "rejected"}
  /\ Len(thrown) <= 1
  /\ thrown # << >> =>
       /\ outcome.kind = "rejected"
       /\ outcome.value = JUndefined
       /\ IF thrown[1].name = "AbortError"
            THEN outcome.error.name = "ApiError" /\ outcome.error.statusCode = 0
            ELSE outcome.error = thrown[1]
  /\ outcome.kind = "rejected" => thrown # << >>
  /\ outcome.kind = "resolved" =>
       /\ thrown = << >>
       /\ outcome.error = NoError
       /\ Is2xxAnswer(N)

\* C10 witness: an error raised in a retry attempt rejected the call.
C10_Witness ==
  /\ Settled
  /\ N >= 2
  /\ thrown = << FetchFailed >>
  /\ outcome.kind = "rejected"


(* ------------------------ timers and liveness -------------------------- *)

\* Every timer that is armed eventually fires, and the clock advances to it.
\* Nothing is assumed of the upstream.
FairSpec ==
  /\ Spec
  /\ WF_allVars(Tick)
  /\ WF_allVars(AbortTimerFires)
  /\ WF_allVars(BackoffElapses)

\* C11 as claimed: a call whose fetch was issued eventually settles,
\* whatever the upstream does, provided each timer eventually fires.
C11_EventuallySettles == (pc = "fetching") ~> Settled

\* What the timers do guarantee: the wait for the response headers ends.
HeadersPhaseEnds == (pc = "fetching") ~> (pc \in {"body", "done"})

\* C12: an attempt that failed below the HTTP layer is the last one, and
\* the call is rejected with the very error the fetch raised: not an
\* ApiError, no status code or endpoint added, whatever budget was left.
C12_TransportFailurePassedThrough ==
  \A k \in 1..N :
    attempts[k].result = "neterror" =>
      /\ k = N
      /\ Settled
      /\ settles = 1
      /\ thrown = << FetchFailed >>
      /\ outcome.kind = "rejected"
      /\ outcome.error = thrown[1]
      /\ outcome.error.name = "TypeError"
      /\ outcome.error.message = "fetch failed"
      /\ outcome.error.props = {}

\* C12 witness: the first attempt of a call with budget 3 failed in transport.
C12_Witness ==
  /\ Settled
  /\ N = 1
  /\ retries = 3
  /\ attempts[1].result = "neterror"

\* C13: every attempt has a timer of its own, due 10 s after that attempt
\* started; while an attempt is in flight no timer of an earlier attempt is
\* armed; an attempt is aborted only by its own timer, after its full
\* window; an earlier timer that fired left the later attempts alone.
C13_OwnTimerPerAttempt ==
  /\ Len(abortTimers) = N
  /\ pc = "fetching" =>
       /\ abortTimers[N] = Armed(startedAt + 10000)
       /\ \A k \in 1..(N - 1) : abortTimers[k].st # "armed"
  /\ \A k \in 1..N :
       attempts[k].result = "aborted" =>
         /\ k = N
         /\ abortTimers[k].st = "fired"
         /\ now - startedAt >= 10000
  /\ \A k \in 1..(N - 1) :
       abortTimers[k].st = "fired" => attempts[k].result = "response"

\* C13 witness: the timer of attempt 1 fired during the backoff wait, and
\* attempt 2, started later, was answered with a 2xx near the end of its
\* own window.
C13_Witness ==
  /\ N = 2
  /\ abortTimers[1].st = "fired"
  /\ Is2xxAnswer(2)
  /\ respAt >= startedAt + 10000
  /\ startedAt > 10000


(* --------------- fetchJson and postJson as functions ------------------ *)
(* The two operations once more, each written out from its own source     *)
(* text, as a function of the retry budget and of what the upstream does  *)
(* to the successive attempts.                                            *)

\* Largest budget of the side-by-side runs; one upstream answer per attempt.
MaxPairRetries == 3

\* What the upstream does to one attempt.
Answer(kind, status, body, stream) ==
  [kind |-> kind, status |-> status, body |-> body, stream |-> stream]

AnswerSet ==
  { Answer("response", 200, BodyObj, "complete"),
    Answer("response", 201, BodyArr, "complete"),
    Answer("response", 200, BodyTruncated, "complete"),
    Answer("response", 200, BodyObj, "stalled"),
    Answer("response", 404, BodyEmpty, "complete"),
    Answer("response", 429, BodyEmpty, "complete"),
    Answer("response", 500, BodyEmpty, "complete"),
    Answer("response", 503, BodyObj, "complete"),
    Answer("timeout", 0, BodyEmpty, "complete"),
    Answer("neterror", 0, BodyEmpty, "complete") }

\* response.json() on a body that arrives completely, breaks, or stalls.
ReadJson(a) ==
  IF a.stream = "stalled" THEN Pending
  ELSE IF a.stream = "broken" THEN Rejected(BodyTerminated)
  ELSE LET r == JsonParse(a.body) IN
       IF r.ok THEN Resolved(r.val) ELSE Rejected(JsonSyntaxError)

Request(method, url, headers, body) ==
  [method |-> method, url |-> url, headers |-> headers, body |-> body]

\* The requests sent, the waits made and the settlement of one call.
CallResult(requests, waits, out) ==
  [requests |-> requests, waits |-> waits, outcome |-> out]

\* The recursive call's result behind this invocation's request and wait.
AfterRetry(req, delay, inner) ==
  CallResult(<< req >> \o inner.requests, << delay >> \o inner.waits, inner.outcome)

RECURSIVE FetchJson(_, _, _)
\* async function fetchJson<T>(url, retries = 3)
FetchJson(url, left, answers) ==
  LET a == Head(answers)
      req == Request("GET", url, {"accept"}, "")
  IN
  IF a.kind = "timeout"
    THEN CallResult(<< req >>, << >>, Rejected(ApiError("Timeout after 10s", 0, url)))
  ELSE IF a.kind = "neterror"
    THEN CallResult(<< req >>, << >>, Rejected(FetchFailed))
  ELSE IF a.status = 429
    THEN CallResult(<< req >>, << >>, Rejected(ApiError("Rate limit reached", 429, url)))
  ELSE IF a.status >= 500 /\ left > 0
    THEN AfterRetry(req, (4 - left) * 1000,
                    FetchJson(url, left - 1, Tail(answers)))
  ELSE IF ~(a.status >= 200 /\ a.status <= 299)
    THEN CallResult(<< req >>, << >>,
                    Rejected(ApiError("API request failed", a.status, url)))
  ELSE CallResult(<< req >>, << >>, ReadJson(a))

\* mutant: postJson keeps one retry less than its budget
PostRetryTestStrict(status, left) == status >= 500 /\ left > 1

\* postJson: if (response.status >= 500 && retries > 0)
PostRetryTest(status, left) == status >= 500 /\ left > 0

RECURSIVE PostJson(_, _, _, _)
\* export async function postJson<T>(url, body, retries = 3)
PostJson(url, body, left, answers) ==
  LET a == Head(answers)
      req == Request("POST", url, {"Content-Type", "accept"}, body)
  IN
  IF a.kind = "timeout"
    THEN CallResult(<< req >>, << >>, Rejected(ApiError("Timeout after 10s", 0, url)))
  ELSE IF a.kind = "neterror"
    THEN CallResult(<< req >>, << >>, Rejected(FetchFailed))
  ELSE IF a.status = 429
    THEN CallResult(<< req >>, << >>, Rejected(ApiError("Rate limit reached", 429, url)))
  ELSE IF PostRetryTest(a.status, left)
    THEN AfterRetry(req, PostDelay(left),
                    PostJson(url, body, left - 1, Tail(answers)))
  ELSE IF ~(a.status >= 200 /\ a.status <= 299)
    THEN CallResult(<< req >>, << >>,
                    Rejected(ApiError("POST API request failed", a.status, url)))
  ELSE CallResult(<< req >>, << >>, ReadJson(a))

NoResult == CallResult(<< >>, << >>, Pending)

RECURSIVE SeqsOf(_, _)
\* All sequences of length n over S.
SeqsOf(S, n) ==
  IF n = 0 THEN {<< >>}
  ELSE {<< x >> \o t : x \in S, t \in SeqsOf(S, n - 1)}

PairUrl == "https://jobed-connect-api.jobtechdev.se/v1/occupations"

\* The two operations are given the same budget and the same upstream; the
\* upstream has one answer ready for every attempt the budget allows.
PairInit ==
  /\ CoreIdle
  /\ calls = << >>
  /\ handler = NoHandler
  /\ \E r \in 0..MaxPairRetries :
       run \in [op : {"pair"}, budget : {r}, body : ReqBodies,
                answers : SeqsOf(AnswerSet, r + 1),
                ran : {{}}, get : {NoResult}, post : {NoResult}]

RunFetchJson ==
  /\ run.op = "pair"
  /\ "get" \notin run.ran
  /\ run' = [run EXCEPT !.ran = @ \cup {"get"},
                        !.get = FetchJson(PairUrl, run.budget, run.answers)]
  /\ UNCHANGED << vars, calls, handler >>

RunPostJson ==
  /\ run.op = "pair"
  /\ "post" \notin run.ran
  /\ run' = [run EXCEPT !.ran = @ \cup {"post"},
                        !.post = PostJson(PairUrl, run.body, run.budget, run.answers)]
  /\ UNCHANGED << vars, calls, handler >>

PairNext == RunFetchJson \/ RunPostJson

SpecPair == PairInit /\ [][PairNext]_allVars

BothRan == run.op = "pair" /\ run.ran = {"get", "post"}

\* The kind of a settlement as the contract names it.
OutcomeKind(out) ==
  IF out.kind = "pending" THEN "Pending"
  ELSE IF out.kind = "resolved" THEN "Value"
  ELSE IF out.error.name # "ApiError" THEN "Passed"
  ELSE IF out.error.statusCode = 429 THEN "RateLimited"
  ELSE IF out.error.statusCode = 0 THEN "Timeout"
  ELSE "HttpStatus"

\* C14: run against the same upstream answers with the same budget, postJson
\* and fetchJson make the same number of attempts and settle the same way:
\* the same kind, the same parsed value, the same status code and endpoint,
\* the same passed-through error; every GET goes out without a body, every
\* POST carries the same body and the JSON content type, and the two make
\* the same number of backoff waits.
C14_PostJsonSameContract ==
  BothRan =>
    LET g == run.get
        p == run.post
    IN
    /\ Len(g.requests) = Len(p.requests)
    /\ Len(g.requests) >= 1
    /\ Len(g.waits) = Len(p.waits)
    /\ Len(g.waits) = Len(g.requests) - 1
    /\ OutcomeKind(g.outcome) = OutcomeKind(p.outcome)
    /\ g.outcome.kind = p.outcome.kind
    /\ g.outcome.value = p.outcome.value
    /\ g.outcome.error.name = p.outcome.error.name
    /\ g.outcome.error.statusCode = p.outcome.error.statusCode
    /\ g.outcome.error.endpoint = p.outcome.error.endpoint
    /\ (OutcomeKind(g.outcome) = "Passed" => g.outcome.error = p.outcome.error)
    /\ \A k \in 1..Len(g.requests) :
         /\ g.requests[k] = Request("GET", PairUrl, {"accept"}, "")
         /\ p.requests[k] = Request("POST", PairUrl, {"Content-Type", "accept"}, run.body)

\* Both retried twice on 5xx and then failed with the same HTTP status.
C14_Witness ==
  /\ BothRan
  /\ run.budget = 3
  /\ Len(run.get.requests) = 3
  /\ Len(run.post.requests) = 3
  /\ run.get.waits = << 1000, 2000 >>
  /\ run.post.waits = << 1000, 2000 >>
  /\ OutcomeKind(run.post.outcome) = "HttpStatus"
  /\ run.post.outcome.error.statusCode = 404

(* ------------------------------ buildUrl ------------------------------ *)
(* Texts are sequences of characters, a URL is the sequence of its        *)
(* characters behind its origin and path, and parameter names, which the  *)
(* program writes as literals of unreserved characters, are single items. *)

\* Largest number of entries of a params object.
MaxParams == 3

\* type Params = Record<string, string | number | boolean | string[] | undefined>
PUndefined == [t |-> "undefined", chars |-> << >>, n |-> 0, b |-> FALSE, items |-> << >>]
PStr(cs) == [t |-> "string", chars |-> cs, n |-> 0, b |-> FALSE, items |-> << >>]
PNum(n) == [t |-> "number", chars |-> << >>, n |-> n, b |-> FALSE, items |-> << >>]
PBool(b) == [t |-> "boolean", chars |-> << >>, n |-> 0, b |-> b, items |-> << >>]
PArr(items) == [t |-> "array", chars |-> << >>, n |-> 0, b |-> FALSE, items |-> items]

ParamNames == {"q", "limit", "occupation-concept-id", "type"}

\* The character a with ring, two bytes in UTF-8.
ARing == "a-ring"

ParamValues ==
  { PUndefined, PStr(<< >>), PStr(<< "a", " ", "b" >>), PStr(<< ARing, "&", "=" >>),
    PNum(0), PNum(10), PBool(FALSE),
    PArr(<< >>), PArr(<< << "a" >>, << "b" >> >>),
    PArr(<< << "a", ",", "b" >>, << "+" >> >>) }

Digit(d) == << "0", "1", "2", "3", "4", "5", "6", "7", "8", "9" >>[d + 1]

RECURSIVE DigitsOf(_)
DigitsOf(n) ==
  IF n < 10 THEN << Digit(n) >> ELSE DigitsOf(n \div 10) \o << Digit(n % 10) >>

\* String(value) for the scalar types of Params.
String(v) ==
  IF v.t = "string" THEN v.chars
  ELSE IF v.t = "number" THEN DigitsOf(v.n)
  ELSE IF v.b THEN << "t", "r", "u", "e" >>
  ELSE << "f", "a", "l", "s", "e" >>

\* The application/x-www-form-urlencoded serialisation of one character.
FormEncodeChar(c) ==
  IF c = " " THEN << "+" >>
  ELSE IF c = "&" THEN << "%", "2", "6" >>
  ELSE IF c = "=" THEN << "%", "3", "D" >>
  ELSE IF c = "+" THEN << "%", "2", "B" >>
  ELSE IF c = "," THEN << "%", "2", "C" >>
  ELSE IF c = ARing THEN << "%", "C", "3", "%", "A", "5" >>
  ELSE << c >>

RECURSIVE FormEncode(_)
FormEncode(cs) ==
  IF cs = << >> THEN << >> ELSE FormEncodeChar(Head(cs)) \o FormEncode(Tail(cs))

Pair(name, value) == [name |-> name, value |-> value]

\* url.searchParams.append(name, value)
SearchParamsAppend(list, name, value) == Append(list, Pair(name, value))

\* url.searchParams.set(name, value): the first pair of that name takes the
\* value and the later ones go; without such a pair it appends.
SearchParamsSet(list, name, value) ==
  IF \E i \in 1..Len(list) : list[i].name = name
    THEN LET first == CHOOSE i \in 1..Len(list) :
                        /\ list[i].name = name
                        /\ \A j \in 1..(i - 1) : list[j].name # name
             kept == [i \in 1..Len(list) |->
                        IF i = first THEN Pair(name, value) ELSE list[i]]
         IN SelectSeq(kept, LAMBDA pr : pr.name # name \/ pr = Pair(name, value))
    ELSE Append(list, Pair(name, value))

RECURSIVE AppendAll(_, _, _)
\* value.forEach((v) => url.searchParams.append(key, String(v)))
AppendAll(list, key, items) ==
  IF items = << >> THEN list
  ELSE AppendAll(SearchParamsAppend(list, key, String(PStr(Head(items)))),
                 key, Tail(items))

\* mutant: an array goes out as one comma-joined pair
EntryStepJoined(list, key, value) ==
  IF value.t = "undefined" THEN list
  ELSE IF value.t = "array"
    THEN IF value.items = << >> THEN list
         ELSE SearchParamsSet(list, key,
                Head(value.items) \o
                  (IF Len(value.items) > 1 THEN << "," >> \o value.items[2] ELSE << >>))
  ELSE SearchParamsSet(list, key, String(value))

\* mutant: an undefined value goes out as an empty string
EntryStepKeepsUndefined(list, key, value) ==
  IF value.t = "array" THEN AppendAll(list, key, value.items)
  ELSE IF value.t = "undefined" THEN SearchParamsSet(list, key, << >>)
  ELSE SearchParamsSet(list, key, String(value))

\* The body of the for loop of buildUrl for one entry.
EntryStep(list, key, value) ==
  IF value.t = "undefined" THEN list
  ELSE IF value.t = "array" THEN AppendAll(list, key, value.items)
  ELSE SearchParamsSet(list, key, String(value))

RECURSIVE EntriesLoop(_, _)
\* for (const [key, value] of Object.entries(params))
EntriesLoop(list, entries) ==
  IF entries = << >> THEN list
  ELSE EntriesLoop(EntryStep(list, Head(entries).key, Head(entries).value),
                   Tail(entries))

RECURSIVE SerializeParams(_)
\* The query text of a URLSearchParams list.
SerializeParams(list) ==
  IF list = << >> THEN << >>
  ELSE << Head(list).name, "=" >> \o FormEncode(Head(list).value) \o
       (IF Len(list) > 1 THEN << "&" >> \o SerializeParams(Tail(list)) ELSE << >>)

\* url.toString() of new URL(`${base}${path}`) with that parameter list.
UrlToString(base, path, list) ==
  << base, path >> \o (IF list = << >> THEN << >> ELSE << "?" >> \o SerializeParams(list))

\* function buildUrl(base, path, params)
BuildUrl(base, path, entries) == UrlToString(base, path, EntriesLoop(<< >>, entries))

UrlBases == {"https://jobsearch.api.jobtechdev.se"}
UrlPaths == {"/search"}

UrlInit ==
  /\ CoreIdle
  /\ calls = << >>
  /\ handler = NoHandler
  /\ run \in [op : {"url"}, base : UrlBases, path : UrlPaths,
              entries : {<< >>}, built : {FALSE}, url : {<< >>}]

\* The handler adds a property to the params object it builds: own string
\* keys, none of them integer-like, so Object.entries keeps insertion order.
SetParam(k, v) ==
  /\ run.op = "url"
  /\ ~run.built
  /\ Len(run.entries) < MaxParams
  /\ \A i \in 1..Len(run.entries) : run.entries[i].key # k
  /\ run' = [run EXCEPT !.entries = Append(@, [key |-> k, value |-> v])]
  /\ UNCHANGED << vars, calls, handler >>

RunBuildUrl ==
  /\ run.op = "url"
  /\ ~run.built
  /\ run' = [run EXCEPT !.built = TRUE,
                        !.url = BuildUrl(run.base, run.path, run.entries)]
  /\ UNCHANGED << vars, calls, handler >>

UrlNext ==
  \/ \E k \in ParamNames, v \in ParamValues : SetParam(k, v)
  \/ RunBuildUrl

SpecUrl == UrlInit /\ [][UrlNext]_allVars

(* How the receiving side reads the URL back. *)

\* What two hexadecimal digits behind a percent sign stand for.
PercentDecode(hi, lo) ==
  IF << hi, lo >> = << "2", "6" >> THEN "&"
  ELSE IF << hi, lo >> = << "3", "D" >> THEN "="
  ELSE IF << hi, lo >> = << "2", "B" >> THEN "+"
  ELSE IF << hi, lo >> = << "2", "C" >> THEN ","
  ELSE "?"

RECURSIVE FormDecode(_)
FormDecode(ts) ==
  IF ts = << >> THEN << >>
  ELSE IF Head(ts) = "+" THEN << " " >> \o FormDecode(Tail(ts))
  ELSE IF Head(ts) = "%" /\ Len(ts) >= 6 /\ SubSeq(ts, 2, 6) = << "C", "3", "%", "A", "5" >>
    THEN << ARing >> \o FormDecode(SubSeq(ts, 7, Len(ts)))
  ELSE IF Head(ts) = "%" /\ Len(ts) >= 3
    THEN << PercentDecode(ts[2], ts[3]) >> \o FormDecode(SubSeq(ts, 4, Len(ts)))
  ELSE << Head(ts) >> \o FormDecode(Tail(ts))

RECURSIVE SplitOn(_, _)
\* The pieces of ts between the occurrences of sep.
SplitOn(ts, sep) ==
  IF \A i \in 1..Len(ts) : ts[i] # sep THEN << ts >>
  ELSE LET i == CHOOSE i \in 1..Len(ts) :
                  ts[i] = sep /\ \A j \in 1..(i - 1) : ts[j] # sep
       IN << SubSeq(ts, 1, i - 1) >> \o SplitOn(SubSeq(ts, i + 1, Len(ts)), sep)

\* name=value read back into a pair; a piece without "=" has an empty value.
ReadPair(ts) ==
  LET parts == SplitOn(ts, "=") IN
  IF parts[1] = << >> THEN Pair("", << >>)
  ELSE Pair(parts[1][1],
            IF Len(parts) = 2 /\ Len(parts[1]) = 1 THEN FormDecode(parts[2])
            ELSE << "?" >>)

\* The query pairs of a URL text, in order.
QueryPairs(text) ==
  LET byMark == SplitOn(text, "?") IN
  IF Len(byMark) = 1 THEN << >>
  ELSE LET pieces == SplitOn(byMark[2], "&") IN
       [i \in 1..Len(pieces) |-> ReadPair(pieces[i])]

RECURSIVE PairsOf(_)
\* The pairs the entries ask for: none for undefined, one for a scalar, one per
\* element for an array.
PairsOf(entries) ==
  IF entries = << >> THEN << >>
  ELSE LET e == Head(entries)
           own == IF e.value.t = "undefined" THEN << >>
                  ELSE IF e.value.t = "array"
                    THEN [i \in 1..Len(e.value.items) |-> Pair(e.key, e.value.items[i])]
                  ELSE << Pair(e.key, String(e.value)) >>
       IN own \o PairsOf(Tail(entries))

\* C15: buildUrl returns one absolute URL, the origin and path followed by at
\* most one query, and read back the query holds exactly the pairs the
\* entries ask for, in the order of the entries: none for an undefined value,
\* one for a scalar, one per element in element order for an array.
C15_BuildUrlQuery ==
  (run.op = "url" /\ run.built) =>
    /\ SubSeq(run.url, 1, 2) = << run.base, run.path >>
    /\ Cardinality({i \in 1..Len(run.url) : run.url[i] = "?"}) =
         (IF PairsOf(run.entries) = << >> THEN 0 ELSE 1)
    /\ QueryPairs(run.url) = PairsOf(run.entries)
    /\ \A i \in 1..Len(run.url) : run.url[i] # ","

\* A text with a space, an array of two elements and an undefined value.
C15_Witness ==
  /\ run.op = "url"
  /\ run.built
  /\ run.entries = << [key |-> "q", value |-> PStr(<< "a", " ", "b" >>)],
                      [key |-> "occupation-concept-id", value |-> PArr(<< << "a" >>, << "b" >> >>)],
                      [key |-> "type", value |-> PUndefined] >>
  /\ run.url = << run.base, run.path, "?", "q", "=", "a", "+", "b", "&",
                  "occupation-concept-id", "=", "a", "&",
                  "occupation-concept-id", "=", "b" >>

(* ------------------------ calls side by side -------------------------- *)
(* Several invocations in flight at once. Each has its own frame; the     *)
(* module keeps no variable besides its constants.                        *)

\* mutant: a call to a URL that has been fetched before is served from memory
FrameCached(method, url, body, left) ==
  LET first == [method |-> method, url |-> url, body |-> body, budget |-> left,
                left |-> left, phase |-> "fetching", attempts |-> 1,
                timer |-> "armed", waits |-> << >>, log |-> << >>, out |-> Pending]
      hits == {k \in 1..Len(calls) :
                 calls[k].method = method /\ calls[k].url = url /\ calls[k].out.kind = "resolved"}
  IN IF hits = {} THEN first
     ELSE [first EXCEPT !.phase = "done", !.out = calls[CHOOSE k \in hits : TRUE].out,
                        !.log = calls[CHOOSE k \in hits : TRUE].log,
                        !.attempts = 0, !.timer = "cleared"]

\* The frame of one logical call: the arguments and locals of its innermost
\* invocation, the requests and waits it has made, and its promise.
Frame(method, url, body, left) ==
  [method |-> method, url |-> url, body |-> body, budget |-> left, left |-> left,
   phase |-> "fetching", attempts |-> 1, timer |-> "armed", waits |-> << >>,
   log |-> << >>, out |-> Pending]

\* What the invocation does when the upstream has answered its attempt.
OnAnswer(c, a) ==
  LET seen == [c EXCEPT !.log = Append(@, a),
                        !.timer = IF a.kind = "timeout" THEN "fired" ELSE "cleared"]
      settle(o) == [seen EXCEPT !.phase = "done", !.out = o]
  IN
  IF a.kind = "timeout" THEN settle(CatchOutcome(AbortError, c.url))
  ELSE IF a.kind = "neterror" THEN settle(CatchOutcome(FetchFailed, c.url))
  ELSE IF IsRateLimited(a.status) THEN settle(CatchOutcome(RateLimitError(c.url), c.url))
  ELSE IF ShouldRetry(a.status, c.left)
    THEN [seen EXCEPT !.phase = "backoff",
                      !.waits = Append(@, BackoffDelay(c.method, c.left))]
  ELSE IF ~ResponseOk(a.status)
    THEN settle(CatchOutcome(StatusError(c.method, a.status, c.url), c.url))
  ELSE IF ReadJson(a) = Pending THEN [seen EXCEPT !.phase = "body"]
  ELSE settle(ReadJson(a))

\* mutant: the retry budget is one counter of the module
OnBackoffElapsedShared(c) ==
  LET lowest == CHOOSE m \in {calls[k].left : k \in 1..Len(calls)} :
                  \A k \in 1..Len(calls) : m <= calls[k].left
  IN [c EXCEPT !.phase = "fetching", !.left = lowest - 1, !.attempts = @ + 1,
               !.timer = "armed"]

\* The backoff is over: return fetchJson(url, retries - 1).
OnBackoffElapsed(c) ==
  [c EXCEPT !.phase = "fetching", !.left = @ - 1, !.attempts = @ + 1,
            !.timer = "armed"]

(* --------------------------- tool handlers ---------------------------- *)
(* af_get_taxonomy_concept with its four fetches, and the handlers that   *)
(* await one call inside a try block: af_education_to_occupations,        *)
(* af_occupation_to_educations and af_list_taxonomy_types.                *)

ConceptsUrl(query) == << "https://taxonomy.api.jobtechdev.se/v1/taxonomy/main/concepts", query >>

FanUrls ==
  << ConceptsUrl("id"), ConceptsUrl("broader"), ConceptsUrl("narrower"),
     ConceptsUrl("related") >>

FanTool == "af_get_taxonomy_concept"

JobEdTools == {"af_education_to_occupations", "af_occupation_to_educations"}

SingleTools == JobEdTools \cup {"af_list_taxonomy_types"}

\* The call a handler with one call makes.
FrameOfTool(tool) ==
  IF tool = "af_education_to_occupations"
    THEN Frame("POST", "https://jobed-connect-api.jobtechdev.se/v1/occupations/match-by-education",
               "{}", DefaultRetries)
  ELSE IF tool = "af_occupation_to_educations"
    THEN Frame("POST", "https://jobed-connect-api.jobtechdev.se/v1/educations/match-by-occupation",
               "{}", DefaultRetries)
  ELSE IF tool = "af_search_taxonomy"
    THEN Frame("GET", << "https://taxonomy.api.jobtechdev.se/v1/taxonomy/suggesters/autocomplete",
                         "query-string" >>, "", DefaultRetries)
  ELSE Frame("GET", ConceptsUrl("type"), "", DefaultRetries)

\* A list of one concept as the taxonomy API sends it.
BodyConcepts == << "[", "{", "\"taxonomy/id\"", ":", "\"i46j\"", "}", "]" >>

FanAnswers ==
  { Answer("response", 200, BodyArr, "complete"),
    Answer("response", 200, BodyEmptyArr, "complete"),
    Answer("response", 404, BodyEmpty, "complete"),
    Answer("response", 500, BodyEmpty, "complete"),
    Answer("neterror", 0, BodyEmpty, "complete") }

AnswersFor(tool) ==
  IF tool = FanTool THEN FanAnswers
  ELSE FanAnswers \cup
       { Answer("response", 200, BodyObj, "complete"),
         Answer("response", 429, BodyEmpty, "complete"),
         Answer("timeout", 0, BodyEmpty, "complete") } \cup
       (IF tool = "af_search_taxonomy"
          THEN { Answer("response", 200, BodyConcepts, "complete"),
                 Answer("response", 200, BodyTruncated, "complete") }
          ELSE {})

NoStructured == [present |-> FALSE, data |-> << >>]

Structured(data) == [present |-> TRUE, data |-> data]

\* { content: [{ type: "text", text }], structuredContent?, isError? }
ToolResponse(text, structured, isError) ==
  [text |-> text, structured |-> structured, isError |-> isError]

NoResponseYet == ToolResponse([kind |-> "none", message |-> ""], NoStructured, FALSE)

\* "Taxonomy concept with ID ... not found."
NotFoundResponse == ToolResponse([kind |-> "notFound", message |-> ""], NoStructured, FALSE)

\* "No occupation matches found ...", "No taxonomy concepts of type ... found."
EmptyResponse == ToolResponse([kind |-> "empty", message |-> ""], NoStructured, FALSE)

\* "An error occurred: ${err.message}", isError: true
ErrorResponse(message) ==
  ToolResponse([kind |-> "error", message |-> message], NoStructured, TRUE)

ListResponse(data) ==
  ToolResponse([kind |-> "list", message |-> ""], Structured(data), FALSE)

\* How a handler leaves its await: with a response, or throwing.
Returns(resp) == [st |-> "returned", response |-> resp, error |-> NoError]
Throws(err) == [st |-> "threw", response |-> NoResponseYet, error |-> err]

PropertyOfUndefined == ErrorObject("TypeError", "Cannot read properties of undefined", -1, "", {})
NotAFunction == ErrorObject("TypeError", "map is not a function", -1, "", {})

\* !v of a parsed JSON value
Falsy(v) ==
  \/ v.t \in {"undefined", "null", "false"}
  \/ v.t = "number" /\ v.n = 0
  \/ v.t = "string" /\ v.s = ""

HasNull(items) == \E j \in 1..Len(items) : items[j].t \in {"null", "undefined"}

\* The try block of af_get_taxonomy_concept behind the await; what it
\* throws lands in its own catch clause.
ConceptResponse(vs) ==
  IF Falsy(vs[1]) \/ (vs[1].t = "array" /\ vs[1].items = << >>)
    THEN NotFoundResponse
  ELSE IF vs[1].t # "array" \/ HasNull(<< vs[1].items[1] >>)
    THEN ErrorResponse(PropertyOfUndefined.message)
  ELSE IF \E k \in 2..4 : vs[k].t # "array"
    THEN ErrorResponse(NotAFunction.message)
  ELSE IF \E k \in 2..4 : HasNull(vs[k].items)
    THEN ErrorResponse(PropertyOfUndefined.message)
  ELSE ToolResponse([kind |-> "concept", message |-> ""],
                    Structured(<< vs[1].items[1], vs[2].items, vs[3].items, vs[4].items >>),
                    FALSE)

\* The catch clause of af_get_taxonomy_concept; every error of the fetches
\* is an Error.
ConceptCatch(err) ==
  IF "statusCode" \in err.props /\ err.statusCode = 404 THEN NotFoundResponse
  ELSE ErrorResponse(err.message)

WrappingKeys ==
  << "\"occupations\"", "\"educations\"", "\"items\"", "\"hits\"", "\"result\"",
     "\"results\"" >>

\* function toArray(data)
ToArray(v) ==
  IF v.t = "array" THEN v.items
  ELSE IF v.t = "object"
    THEN LET found == {w \in 1..Len(WrappingKeys) :
                         \E m \in 1..Len(v.keys) :
                           v.keys[m] = WrappingKeys[w] /\ v.items[m].t = "array"}
         IN IF found = {} THEN << >>
            ELSE LET w == CHOOSE x \in found : \A y \in found : x <= y
                     m == CHOOSE x \in 1..Len(v.keys) : v.keys[x] = WrappingKeys[w]
                 IN v.items[m].items
  ELSE << >>

\* The JobEd handlers behind their try block.
MatchesResponse(raw) ==
  IF ToArray(raw) = << >> THEN Returns(EmptyResponse)
  ELSE IF HasNull(ToArray(raw)) THEN Throws(PropertyOfUndefined)
  ELSE Returns(ListResponse(<< raw >>))

\* af_list_taxonomy_types behind its try block.
TypesResponse(listed) ==
  IF listed.t # "array" THEN Throws(NotAFunction)
  ELSE IF HasNull(listed.items) THEN Throws(PropertyOfUndefined)
  ELSE IF listed.items = << >> THEN Returns(EmptyResponse)
  ELSE Returns(ListResponse(listed.items))

\* value[key] of a parsed JSON value; key is the token of the JSON text.
Field(v, key) ==
  IF v.t = "object" /\ \E m \in 1..Len(v.keys) : v.keys[m] = key
    THEN v.items[CHOOSE m \in 1..Len(v.keys) : v.keys[m] = key]
    ELSE JUndefined

\* mutant: the concept carries its identifier as id
MapItemWithId(item) ==
  JObj(<< "\"id\"", "\"type\"", "\"preferredLabel\"", "\"deprecated\"", "\"definition\"" >>,
       << Field(item, "\"taxonomy/id\""), Field(item, "\"taxonomy/type\""),
          Field(item, "\"taxonomy/preferred-label\""), Field(item, "\"taxonomy/deprecated\""),
          Field(item, "\"taxonomy/definition\"") >>)

\* data.map((item) => ({ conceptId: item["taxonomy/id"], type: ..., ... }))
MapItem(item) ==
  JObj(<< "\"conceptId\"", "\"type\"", "\"preferredLabel\"", "\"deprecated\"", "\"definition\"" >>,
       << Field(item, "\"taxonomy/id\""), Field(item, "\"taxonomy/type\""),
          Field(item, "\"taxonomy/preferred-label\""), Field(item, "\"taxonomy/deprecated\""),
          Field(item, "\"taxonomy/definition\"") >>)

\* af_search_taxonomy behind its try block.
SearchTaxonomyResponse(data) ==
  IF data.t # "array" \/ data.items = << >> THEN Returns(EmptyResponse)
  ELSE IF HasNull(data.items) THEN Throws(PropertyOfUndefined)
  ELSE Returns(ListResponse([i \in 1..Len(data.items) |-> MapItem(data.items[i])]))

\* Something thrown that is not an Error.
ThrownString == ErrorObject("string", "boom", -1, "", {})

\* err instanceof Error
IsErrorInstance(err) == err.name # "string"

\* mutant: the catch clause of af_search_taxonomy rethrows a 404
SearchTaxonomyCatchRethrows404(err) ==
  IF err.statusCode = 404 THEN Throws(err)
  ELSE Returns(ErrorResponse(err.message))

\* The catch clause of af_search_taxonomy.
SearchTaxonomyCatch(err) ==
  IF IsErrorInstance(err) THEN Returns(ErrorResponse(err.message))
  ELSE Returns(ErrorResponse("An unknown error occurred."))

\* mutant: every error that carries a status code gives the empty result
CatchAnyStatus(err) ==
  IF "statusCode" \in err.props THEN Returns(EmptyResponse) ELSE Throws(err)

\* catch (err) { if (e.statusCode === 404) return { content: [...] }; throw err; }
Catch404(err) ==
  IF "statusCode" \in err.props /\ err.statusCode = 404
    THEN Returns(EmptyResponse)
    ELSE Throws(err)

\* mutant: a failed fetch counts as a list
PromiseAllSettledLists(cs) ==
  IF \A k \in 1..Len(cs) : cs[k].out.kind # "pending"
    THEN Resolved([k \in 1..Len(cs) |->
                     IF cs[k].out.kind = "resolved" THEN cs[k].out.value
                     ELSE JArr(<< JNum(1) >>)])
  ELSE Pending

\* Promise.all over promises of which at most one has just settled: it
\* rejects with the first rejection and fulfils once all have resolved.
PromiseAll(cs) ==
  IF \E k \in 1..Len(cs) : cs[k].out.kind = "rejected"
    THEN Rejected((cs[CHOOSE k \in 1..Len(cs) : cs[k].out.kind = "rejected"]).out.error)
  ELSE IF \A k \in 1..Len(cs) : cs[k].out.kind = "resolved"
    THEN Resolved([k \in 1..Len(cs) |-> cs[k].out.value])
  ELSE Pending

\* The promise the handler awaits.
Awaited(tool, cs) == IF tool = FanTool THEN PromiseAll(cs) ELSE cs[1].out

\* The handler behind its await, once the awaited promise has settled.
Continue(tool, all) ==
  IF tool = FanTool
    THEN Returns(IF all.kind = "resolved" THEN ConceptResponse(all.value)
                 ELSE ConceptCatch(all.error))
  ELSE IF tool = "af_search_taxonomy"
    THEN IF all.kind = "rejected" THEN SearchTaxonomyCatch(all.error)
         ELSE SearchTaxonomyResponse(all.value)
  ELSE IF all.kind = "rejected" THEN Catch404(all.error)
  ELSE IF tool \in JobEdTools THEN MatchesResponse(all.value)
  ELSE TypesResponse(all.value)

\* mutant: the handler runs its continuation again on every later settlement
ResumeOnEverySettle(h, all) ==
  IF all.kind = "pending" THEN h
  ELSE [h EXCEPT !.st = Continue(h.tool, all).st,
                 !.all = all,
                 !.response = Continue(h.tool, all).response,
                 !.error = Continue(h.tool, all).error]

\* Nothing happens to the handler while the promise it awaits is pending.
Resume(h, all) ==
  IF h.st # "awaiting" \/ all.kind = "pending" THEN h
  ELSE [h EXCEPT !.st = Continue(h.tool, all).st,
                 !.all = all,
                 !.response = Continue(h.tool, all).response,
                 !.error = Continue(h.tool, all).error]

Awaiting(tool) ==
  [tool |-> tool, st |-> "awaiting", all |-> Pending, response |-> NoResponseYet,
   error |-> NoError]

HandlersInit == CoreIdle /\ OthersIdle

\* af_get_taxonomy_concept runs up to its await: four fetches are in flight.
GetTaxonomyConcept ==
  /\ handler = NoHandler
  /\ calls = << >>
  /\ calls' = [k \in 1..4 |-> Frame("GET", FanUrls[k], "", DefaultRetries)]
  /\ handler' = Awaiting(FanTool)
  /\ UNCHANGED << vars, run >>

\* A handler with one call runs up to its await.
StartHandler(tool) ==
  /\ handler = NoHandler
  /\ calls = << >>
  /\ calls' = << FrameOfTool(tool) >>
  /\ handler' = Awaiting(tool)
  /\ UNCHANGED << vars, run >>

\* The upstream answers the attempt of one of the calls of the handler.
HandlerAnswer(k, a) ==
  /\ handler # NoHandler
  /\ k \in 1..Len(calls)
  /\ a \in AnswersFor(handler.tool)
  /\ calls[k].phase = "fetching"
  /\ calls' = [calls EXCEPT ![k] = OnAnswer(@, a)]
  /\ handler' = Resume(handler, Awaited(handler.tool, calls'))
  /\ UNCHANGED << vars, run >>

HandlerBackoffElapses(k) ==
  /\ handler # NoHandler
  /\ k \in 1..Len(calls)
  /\ calls[k].phase = "backoff"
  /\ calls' = [calls EXCEPT ![k] = OnBackoffElapsed(@)]
  /\ UNCHANGED << vars, run, handler >>

HandlersNext ==
  \/ GetTaxonomyConcept
  \/ \E tool \in SingleTools \cup {"af_search_taxonomy"} : StartHandler(tool)
  \/ \E k \in 1..4, a \in AnswersFor(FanTool) \cup AnswersFor("af_search_taxonomy") :
       HandlerAnswer(k, a)
  \/ \E k \in 1..4 : HandlerBackoffElapses(k)

SpecHandlers == HandlersInit /\ [][HandlersNext]_allVars

Returned == handler # NoHandler /\ handler.st = "returned"

Fanned == handler # NoHandler /\ handler.tool = FanTool

\* C16: a response of af_get_taxonomy_concept carries a structured payload
\* only when all four fetches have resolved, and then the payload is made of
\* exactly their four values; once any of the fetches has failed the
\* response is the not-found text or an error text without payload, made of
\* the first failure alone, and the handler never waits on with a failed
\* fetch in hand.
C16_AllOrNothing ==
  /\ (Fanned /\ Returned /\ handler.response.structured.present) =>
       /\ \A k \in 1..4 : calls[k].out.kind = "resolved"
       /\ handler.response = ConceptResponse([k \in 1..4 |-> calls[k].out.value])
       /\ ~handler.response.isError
  /\ (Fanned /\ \E k \in 1..4 : calls[k].out.kind = "rejected") =>
       /\ Returned
       /\ handler.all.kind = "rejected"
       /\ \E k \in 1..4 : calls[k].out = handler.all
       /\ ~handler.response.structured.present
       /\ handler.response.text.kind \in {"notFound", "error"}
       /\ handler.response = ConceptCatch(handler.all.error)

\* Three fetches resolved with lists, the last one failed after its retries.
C16_Witness ==
  /\ Fanned
  /\ Returned
  /\ \A k \in 1..3 : calls[k].out = Resolved(JArr(<< JNum(1), JNum(2) >>))
  /\ calls[4].out.kind = "rejected"
  /\ calls[4].attempts = 4
  /\ handler.response.isError

(* ------------------- two or more calls in flight ---------------------- *)

\* Most calls in flight at once.
MaxCalls == 2

ConcUrls == {UrlOf("jobSearchFetch"), UrlOf("taxonomyFetch")}

ConcAnswers ==
  { Answer("response", 200, BodyObj, "complete"),
    Answer("response", 200, BodyArr, "complete"),
    Answer("response", 404, BodyEmpty, "complete"),
    Answer("response", 500, BodyEmpty, "complete"),
    Answer("timeout", 0, BodyEmpty, "complete") }

ConcInit ==
  /\ CoreIdle
  /\ calls = << >>
  /\ handler = NoHandler
  /\ run = [op |-> "calls"]

\* A handler calls one of the fetch wrappers.
StartFetch(url) ==
  /\ run.op = "calls"
  /\ Len(calls) < MaxCalls
  /\ calls' = Append(calls, Frame("GET", url, "", DefaultRetries))
  /\ UNCHANGED << vars, handler, run >>

\* A handler calls one of the post wrappers.
StartPost(body) ==
  /\ run.op = "calls"
  /\ Len(calls) < MaxCalls
  /\ calls' = Append(calls, Frame("POST", UrlOf("jobEdPost"), body, DefaultRetries))
  /\ UNCHANGED << vars, handler, run >>

\* The upstream answers the attempt of one of the calls in flight.
CallAnswered(k, a) ==
  /\ run.op = "calls"
  /\ k \in 1..Len(calls)
  /\ calls[k].phase = "fetching"
  /\ calls' = [calls EXCEPT ![k] = OnAnswer(@, a)]
  /\ UNCHANGED << vars, handler, run >>

CallBackoffElapses(k) ==
  /\ run.op = "calls"
  /\ k \in 1..Len(calls)
  /\ calls[k].phase = "backoff"
  /\ calls' = [calls EXCEPT ![k] = OnBackoffElapsed(@)]
  /\ UNCHANGED << vars, handler, run >>

ConcNext ==
  \/ \E url \in ConcUrls : StartFetch(url)
  \/ StartPost("{\"ids\":[1]}")
  \/ \E k \in 1..MaxCalls, a \in ConcAnswers : CallAnswered(k, a)
  \/ \E k \in 1..MaxCalls : CallBackoffElapses(k)

SpecCalls == ConcInit /\ [][ConcNext]_allVars

\* An answer that leaves the attempt it is given to waiting.
Silence == Answer("response", 200, BodyObj, "stalled")

\* What the operation of the frame does, told from its own arguments and
\* the answers to its own attempts alone.
Replay(c) ==
  LET answers == IF c.phase = "done" THEN c.log ELSE Append(c.log, Silence) IN
  IF c.method = "GET" THEN FetchJson(c.url, c.budget, answers)
  ELSE PostJson(c.url, c.body, c.budget, answers)

AllSettled == \A k \in 1..Len(calls) : calls[k].phase = "done"

\* The next call is made when the one before has settled.
NextFetch(url) == AllSettled /\ StartFetch(url)

NextPost(body) == AllSettled /\ StartPost(body)

SeqNext ==
  \/ \E url \in ConcUrls : NextFetch(url)
  \/ \E body \in ReqBodies : NextPost(body)
  \/ \E k \in 1..MaxCalls, a \in ConcAnswers : CallAnswered(k, a)
  \/ \E k \in 1..MaxCalls : CallBackoffElapses(k)

SpecSeq == ConcInit /\ [][SeqNext]_allVars

SameRequest(c, d) == c.method = d.method /\ c.url = d.url /\ c.body = d.body

\* C18: two calls made one after the other with the same request, both
\* successful, against an upstream that gave both the same answers,
\* resolve with equal values, and each of them has sent its own requests:
\* as many as it was given answers, at least one.
C18_RepeatedCallSameValue ==
  \A j \in 1..Len(calls) : \A k \in 1..Len(calls) :
    ( /\ j < k
      /\ SameRequest(calls[j], calls[k])
      /\ calls[j].out.kind = "resolved"
      /\ calls[k].out.kind = "resolved"
      /\ calls[j].log = calls[k].log )
    => /\ calls[j].out.value = calls[k].out.value
       /\ calls[k].out.value = JsonParse(calls[k].log[Len(calls[k].log)].body).val
       /\ calls[j].attempts = Len(calls[j].log)
       /\ calls[k].attempts = Len(calls[k].log)
       /\ calls[k].attempts >= 1
       /\ calls[k].waits = calls[j].waits

\* Both calls were answered 500 once and then with the same list.
C18_Witness ==
  /\ Len(calls) = 2
  /\ SameRequest(calls[1], calls[2])
  /\ calls[1].method = "GET"
  /\ calls[1].log = calls[2].log
  /\ Len(calls[1].log) = 2
  /\ calls[1].out = Resolved(JArr(<< JNum(1), JNum(2) >>))
  /\ calls[2].out = Resolved(JArr(<< JNum(1), JNum(2) >>))

(* --------------------- the text block of a response ------------------- *)
(* A text is told by its length and by whether it ends with the           *)
(* truncation marker.                                                     *)

\* export const CHARACTER_LIMIT = 50000;
CHARACTER_LIMIT == 50000

\* "\n...[trunkerat pga längd]".length
MarkerLength == 25

Text(len, marked) == [len |-> len, marked |-> marked]

\* text.slice(0, n)
Slice(text, n) ==
  IF text.len <= n THEN text ELSE Text(n, FALSE)

\* The end of formatJobAdFull, and truncateIfNeeded, which no tool calls.
TruncateIfNeeded(text) ==
  IF text.len > CHARACTER_LIMIT
    THEN Text(CHARACTER_LIMIT + MarkerLength, TRUE)
    ELSE text

Tools ==
  { "af_search_jobs", "af_get_job", "af_search_historical_jobs", "af_stream_jobs",
    "af_search_taxonomy", "af_enrich_job_text", "af_synonym_dictionary",
    "af_get_taxonomy_concept", "af_list_taxonomy_types",
    "af_education_to_occupations", "af_occupation_to_educations",
    "af_search_job_links", "af_autocomplete" }

\* The text a tool puts into its response, from the text it has formatted.
ToolText(tool, formatted) ==
  IF tool = "af_get_job" THEN TruncateIfNeeded(formatted)
  ELSE IF tool \in {"af_search_jobs", "af_search_historical_jobs",
                    "af_synonym_dictionary", "af_autocomplete"}
    THEN formatted
  ELSE Slice(formatted, CHARACTER_LIMIT)

FormattedLengths ==
  {0, 1200, CHARACTER_LIMIT - 1, CHARACTER_LIMIT, CHARACTER_LIMIT + 1,
   CHARACTER_LIMIT + MarkerLength, 2 * CHARACTER_LIMIT, 7 * CHARACTER_LIMIT}

\* The ways a handler can leave, by tool: with its result, with the text
\* for an empty result, with the text for an error it catches, or throwing.
PathsOf(tool) ==
  IF tool \in {"af_get_job", "af_enrich_job_text"} THEN {"result", "throw"}
  ELSE IF tool \in {"af_education_to_occupations", "af_occupation_to_educations",
                    "af_list_taxonomy_types"}
    THEN {"result", "empty", "error", "throw"}
  ELSE IF tool = "af_get_taxonomy_concept" THEN {"result", "empty", "error"}
  ELSE IF tool = "af_search_taxonomy" THEN {"result", "empty", "error", "throw"}
  ELSE {"result", "empty", "throw"}

\* mutant: the messages of the other paths come without a content block
BlocksOnResultOnly(path, text) ==
  IF path = "result" THEN << [type |-> "text", text |-> text] >> ELSE << >>

\* content: [{ type: "text", text }]
Blocks(path, text) == << [type |-> "text", text |-> text] >>

\* "No jobs found for your search.", "An error occurred: ...": short texts.
MessageText == Text(30, FALSE)

\* The response object a handler returns on a path.
TextOn(tool, path, formatted) ==
  IF path = "result" THEN ToolText(tool, formatted) ELSE MessageText

ResponseOn(tool, path, formatted) ==
  [content |-> Blocks(path, TextOn(tool, path, formatted)),
   structured |-> path = "result",
   isError |-> (path = "error" /\ tool \in {"af_search_taxonomy", "af_get_taxonomy_concept"})]

NoReturn == [content |-> << >>, structured |-> FALSE, isError |-> FALSE]

TextInit ==
  /\ CoreIdle
  /\ calls = << >>
  /\ handler = NoHandler
  /\ \E tool \in Tools : \E path \in PathsOf(tool) :
       run \in [op : {"text"}, tool : {tool}, path : {path},
                formatted : {Text(n, FALSE) :
                               n \in IF path = "result" THEN FormattedLengths ELSE {0}},
                returned : {FALSE}, threw : {FALSE}, text : {Text(0, FALSE)},
                response : {NoReturn}]

\* The handler returns its response.
ReturnText ==
  /\ run.op = "text"
  /\ run.path # "throw"
  /\ ~run.returned
  /\ run' = [run EXCEPT !.returned = TRUE,
                        !.response = ResponseOn(run.tool, run.path, run.formatted),
                        !.text = TextOn(run.tool, run.path, run.formatted)]
  /\ UNCHANGED << vars, calls, handler >>

\* An error the handler does not catch leaves it: there is no response.
ThrowOut ==
  /\ run.op = "text"
  /\ run.path = "throw"
  /\ ~run.threw
  /\ run' = [run EXCEPT !.threw = TRUE]
  /\ UNCHANGED << vars, calls, handler >>

TextNext == ReturnText \/ ThrowOut

SpecText == TextInit /\ [][TextNext]_allVars

\* C19: the text block of every tool response is bounded by the character
\* budget plus the marker, and a formatted text over the budget comes out
\* ending with the truncation marker.
C19_TextTruncatedWithMarker ==
  (run.op = "text" /\ run.returned) =>
    /\ run.text.len <= CHARACTER_LIMIT + MarkerLength
    /\ (run.formatted.len > CHARACTER_LIMIT => run.text.marked)

(* ------------------------- 404 in the handlers ------------------------ *)

Left == handler # NoHandler /\ handler.st \in {"returned", "threw"}

Is404(err) == err.name = "ApiError" /\ err.statusCode = 404

\* C20: in af_education_to_occupations, af_occupation_to_educations,
\* af_list_taxonomy_types and af_get_taxonomy_concept, when the awaited fetch
\* fails with the HTTP status error of a 404 the handler returns a text-only
\* response that is not flagged as an error; when it fails with anything
\* else the handler returns no empty-result response: the first three throw
\* that very error, af_get_taxonomy_concept returns an error response.
C20_EmptyResultOn404Only ==
  /\ (handler # NoHandler /\ handler.tool \in SingleTools
        /\ calls[1].out.kind = "rejected") =>
       Left /\ handler.all = calls[1].out
  /\ (Left /\ handler.tool \in SingleTools \cup {FanTool}
        /\ handler.all.kind = "rejected") =>
       /\ \E k \in 1..Len(calls) : calls[k].out = handler.all
       /\ IF Is404(handler.all.error)
            THEN /\ handler.st = "returned"
                 /\ handler.error = NoError
                 /\ ~handler.response.isError
                 /\ ~handler.response.structured.present
                 /\ handler.response.text.kind \in {"empty", "notFound"}
            ELSE /\ handler.response.text.kind \notin {"empty", "notFound", "list", "concept"}
                 /\ ~handler.response.structured.present
                 /\ IF handler.tool = FanTool
                      THEN /\ handler.st = "returned"
                           /\ handler.response = ErrorResponse(handler.all.error.message)
                      ELSE /\ handler.st = "threw"
                           /\ handler.error = handler.all.error

\* The JobEd call was answered 404 and the handler returned the empty result.
C20_Witness ==
  /\ Left
  /\ handler.tool = "af_education_to_occupations"
  /\ calls[1].method = "POST"
  /\ calls[1].attempts = 1
  /\ Is404(calls[1].out.error)
  /\ handler.response = EmptyResponse

\* The list of types: answered 500 four times, the handler threw that error.
C20_WitnessOther ==
  /\ Left
  /\ handler.tool = "af_list_taxonomy_types"
  /\ calls[1].attempts = 4
  /\ handler.st = "threw"
  /\ handler.error.statusCode = 500

(* --------------------------- the tool registry ------------------------ *)

\* Most servers one HTTP process creates here, one per POST /mcp.
MaxServers == 4

\* The register functions createServer calls, in its order.
RegisterCalls ==
  << "registerSearchJobsTool", "registerGetJobTool", "registerAutocompleteTool",
     "registerJobStreamTool", "registerHistoricalJobsTool", "registerEnrichJobsTool",
     "registerJobLinksTool", "registerJobEdConnectTools",
     "registerSearchTaxonomyTool", "registerTaxonomyExtendedTools" >>

\* mutant: the JobEd module registers one of its two tools
RegistersOneJobEdTool(fn) ==
  CASE fn = "registerSearchJobsTool" -> << "af_search_jobs" >>
    [] fn = "registerGetJobTool" -> << "af_get_job" >>
    [] fn = "registerAutocompleteTool" -> << "af_autocomplete" >>
    [] fn = "registerJobStreamTool" -> << "af_stream_jobs" >>
    [] fn = "registerHistoricalJobsTool" -> << "af_search_historical_jobs" >>
    [] fn = "registerEnrichJobsTool" -> << "af_enrich_job_text", "af_synonym_dictionary" >>
    [] fn = "registerJobLinksTool" -> << "af_search_job_links" >>
    [] fn = "registerJobEdConnectTools" -> << "af_education_to_occupations" >>
    [] fn = "registerSearchTaxonomyTool" -> << "af_search_taxonomy" >>
    [] OTHER -> << "af_get_taxonomy_concept", "af_list_taxonomy_types" >>

\* The names each register function passes to server.registerTool, in order.
Registers(fn) ==
  CASE fn = "registerSearchJobsTool" -> << "af_search_jobs" >>
    [] fn = "registerGetJobTool" -> << "af_get_job" >>
    [] fn = "registerAutocompleteTool" -> << "af_autocomplete" >>
    [] fn = "registerJobStreamTool" -> << "af_stream_jobs" >>
    [] fn = "registerHistoricalJobsTool" -> << "af_search_historical_jobs" >>
    [] fn = "registerEnrichJobsTool" -> << "af_enrich_job_text", "af_synonym_dictionary" >>
    [] fn = "registerJobLinksTool" -> << "af_search_job_links" >>
    [] fn = "registerJobEdConnectTools" ->
         << "af_education_to_occupations", "af_occupation_to_educations" >>
    [] fn = "registerSearchTaxonomyTool" -> << "af_search_taxonomy" >>
    [] OTHER -> << "af_get_taxonomy_concept", "af_list_taxonomy_types" >>

RECURSIVE RegistrationsFrom(_)
\* Every registerTool call of createServer, in order.
RegistrationsFrom(fns) ==
  IF fns = << >> THEN << >> ELSE Registers(Head(fns)) \o RegistrationsFrom(Tail(fns))

\* The tool tables of the README.
ReadmeTools ==
  << "af_search_jobs", "af_get_job", "af_autocomplete", "af_stream_jobs",
     "af_search_historical_jobs", "af_enrich_job_text", "af_synonym_dictionary",
     "af_search_job_links", "af_education_to_occupations",
     "af_occupation_to_educations", "af_search_taxonomy", "af_get_taxonomy_concept",
     "af_list_taxonomy_types" >>

\* The `tools` array of GET /health.
HealthTools ==
  << "af_search_jobs", "af_get_job", "af_autocomplete",
     "af_stream_jobs",
     "af_search_historical_jobs",
     "af_enrich_job_text", "af_synonym_dictionary",
     "af_search_job_links",
     "af_education_to_occupations", "af_occupation_to_educations",
     "af_search_taxonomy", "af_get_taxonomy_concept", "af_list_taxonomy_types" >>

\* The four "Tools:" lines runStdio logs.
StdioLogTools ==
  << "af_search_jobs", "af_get_job", "af_autocomplete", "af_stream_jobs",
     "af_search_historical_jobs", "af_enrich_job_text", "af_synonym_dictionary",
     "af_search_job_links", "af_education_to_occupations", "af_occupation_to_educations",
     "af_search_taxonomy", "af_get_taxonomy_concept", "af_list_taxonomy_types" >>

ServerInit ==
  /\ CoreIdle
  /\ calls = << >>
  /\ handler = NoHandler
  /\ run \in [op : {"server"}, transport : {"stdio", "http"}, servers : {0},
              building : {FALSE}, tools : {<< >>}, threw : {FALSE},
              health : {<< >>}, log : {<< >>}]

\* createServer(): a new McpServer without tools. runStdio creates one,
\* runHTTP one for every POST /mcp.
CreateServer ==
  /\ run.op = "server"
  /\ ~run.building
  /\ ~run.threw
  /\ run.servers < (IF run.transport = "stdio" THEN 1 ELSE MaxServers)
  /\ run' = [run EXCEPT !.servers = @ + 1, !.building = TRUE, !.tools = << >>]
  /\ UNCHANGED << vars, calls, handler >>

\* The next server.registerTool call; registering a name twice throws.
RegisterTool ==
  /\ run.op = "server"
  /\ run.building
  /\ LET all == RegistrationsFrom(RegisterCalls)
         name == all[Len(run.tools) + 1]
     IN IF \E i \in 1..Len(run.tools) : run.tools[i] = name
          THEN run' = [run EXCEPT !.building = FALSE, !.threw = TRUE]
          ELSE run' = [run EXCEPT !.tools = Append(@, name),
                                  !.building = Len(run.tools) + 1 < Len(all)]
  /\ UNCHANGED << vars, calls, handler >>

\* app.get("/health")
GetHealth ==
  /\ run.op = "server"
  /\ run.transport = "http"
  /\ ~run.building
  /\ run' = [run EXCEPT !.health = HealthTools]
  /\ UNCHANGED << vars, calls, handler >>

\* The start-up log of runStdio behind server.connect.
LogTools ==
  /\ run.op = "server"
  /\ run.transport = "stdio"
  /\ run.servers = 1
  /\ ~run.building
  /\ ~run.threw
  /\ run.log = << >>
  /\ run' = [run EXCEPT !.log = StdioLogTools]
  /\ UNCHANGED << vars, calls, handler >>

ServerNext == CreateServer \/ RegisterTool \/ GetHealth \/ LogTools

SpecServer == ServerInit /\ [][ServerNext]_allVars

Range(f) == {f[i] : i \in 1..Len(f)}

ServerReady == run.op = "server" /\ run.servers >= 1 /\ ~run.building

\* C21: a server created by createServer has exactly the 13 tools of the
\* README, each registered once and no registration throwing; the list of
\* /health and the list of the stdio start-up log name the same 13 tools.
C21_ThirteenTools ==
  /\ run.op = "server" => ~run.threw
  /\ ServerReady =>
       /\ Len(run.tools) = 13
       /\ Cardinality(Range(run.tools)) = 13
       /\ Range(run.tools) = Range(ReadmeTools)
  /\ (run.op = "server" /\ run.health # << >>) =>
       /\ Range(run.health) = Range(RegistrationsFrom(RegisterCalls))
       /\ Len(run.health) = 13
  /\ (run.op = "server" /\ run.log # << >>) =>
       /\ Range(run.log) = Range(run.tools)
       /\ Len(run.log) = 13
  /\ Cardinality(Range(ReadmeTools)) = 13

\* The HTTP process has built its second server and answered /health.
C21_Witness ==
  /\ ServerReady
  /\ run.transport = "http"
  /\ run.servers = 2
  /\ Len(run.tools) = 13
  /\ run.health = HealthTools

(* ----------------------- the blocks of a response --------------------- *)

\* C22: every response a tool handler returns, on its result path, its
\* empty-result path and its handled-error path, has a content list that is
\* not empty and starts with a block of type "text".
C22_FirstBlockIsText ==
  (run.op = "text" /\ run.returned) =>
    /\ Len(run.response.content) >= 1
    /\ run.response.content[1].type = "text"
    /\ run.response.content[1].text = run.text

\* af_search_taxonomy has caught the error of its fetch.
C22_Witness ==
  /\ run.op = "text"
  /\ run.returned
  /\ run.tool = "af_search_taxonomy"
  /\ run.path = "error"
  /\ run.response.isError
  /\ run.response.content = << [type |-> "text", text |-> MessageText] >>

(* -------------------------- af_search_taxonomy ------------------------ *)

SearchedTaxonomy == handler # NoHandler /\ handler.tool = "af_search_taxonomy"

\* C23: the concepts in the structured payload of a successful
\* af_search_taxonomy call carry the identifier of the upstream item under
\* the key id.
C23_ConceptsHaveId ==
  (SearchedTaxonomy /\ Returned /\ handler.response.structured.present) =>
    \A i \in 1..Len(handler.response.structured.data) :
      /\ \E m \in 1..Len(handler.response.structured.data[i].keys) :
           handler.response.structured.data[i].keys[m] = "\"id\""
      /\ Field(handler.response.structured.data[i], "\"id\"") =
           Field(calls[1].out.value.items[i], "\"taxonomy/id\"")

\* C29: whenever the fetch of af_search_taxonomy has failed the handler has
\* returned, never thrown, a response flagged isError with an error text and
\* no structured payload; the catch clause gives such a response also for a
\* thrown value that is not an Error; a structured payload is returned only
\* for a fetch that resolved with a non-empty array.
C29_SearchTaxonomyCatchesAll ==
  /\ (SearchedTaxonomy /\ calls[1].out.kind = "rejected") =>
       /\ Returned
       /\ handler.all = calls[1].out
       /\ handler.error = NoError
       /\ handler.response.isError
       /\ handler.response.text.kind = "error"
       /\ handler.response.text.message = calls[1].out.error.message
       /\ ~handler.response.structured.present
  /\ (SearchedTaxonomy /\ Returned /\ handler.response.structured.present) =>
       /\ calls[1].out.kind = "resolved"
       /\ calls[1].out.value.t = "array"
       /\ calls[1].out.value.items # << >>
       /\ ~handler.response.isError
  /\ \A err \in {ThrownString, FetchFailed, JsonSyntaxError} :
       /\ SearchTaxonomyCatch(err).st = "returned"
       /\ SearchTaxonomyCatch(err).response.isError
       /\ ~SearchTaxonomyCatch(err).response.structured.present

\* The fetch was answered 404 and the handler returned the error response.
C29_Witness ==
  /\ SearchedTaxonomy
  /\ Returned
  /\ Is404(calls[1].out.error)
  /\ calls[1].attempts = 1
  /\ handler.response.isError

(* ------------------------- af_synonym_dictionary ---------------------- *)

\* The longest upstream list and the largest limit of the model; the schema
\* allows 1..100 and defaults to 20.
MaxEntries == 4
MaxLimit == 3

\* An entry of the dictionary; matches says whether its term or its concept
\* includes the filter q.
SynonymEntry(id, matches) == [id |-> id, matches |-> matches]

\* entries.filter((e) => e.term...includes(q) || e.concept...includes(q))
FilterByQ(entries) == SelectSeq(entries, LAMBDA e : e.matches)

\* entries.slice(0, limit)
SliceTo(entries, limit) ==
  SubSeq(entries, 1, IF Len(entries) < limit THEN Len(entries) ELSE limit)

\* The handler of af_synonym_dictionary behind its await.
SynonymResponse(items, hasQ, limit) ==
  LET entries == IF hasQ THEN FilterByQ(items) ELSE items
  IN IF entries = << >>
       THEN [kind |-> "empty", lines |-> << >>, structured |-> NoStructured]
       ELSE [kind |-> "list", lines |-> SliceTo(entries, limit),
             structured |-> Structured(entries)]

SynonymsInit ==
  /\ CoreIdle
  /\ calls = << >>
  /\ handler = NoHandler
  /\ run = [op |-> "synonyms", items |-> << >>, hasQ |-> FALSE, limit |-> 0,
            returned |-> FALSE,
            response |-> [kind |-> "none", lines |-> << >>, structured |-> NoStructured]]

\* The upstream dictionary holds one more entry.
UpstreamEntry(matches) ==
  /\ run.op = "synonyms"
  /\ ~run.returned
  /\ Len(run.items) < MaxEntries
  /\ run' = [run EXCEPT !.items = Append(@, SynonymEntry(Len(@) + 1, matches))]
  /\ UNCHANGED << vars, calls, handler >>

\* af_synonym_dictionary is called and its fetch resolves with the dictionary.
SynonymDictionary(hasQ, limit) ==
  /\ run.op = "synonyms"
  /\ ~run.returned
  /\ run' = [run EXCEPT !.hasQ = hasQ, !.limit = limit, !.returned = TRUE,
                        !.response = SynonymResponse(run.items, hasQ, limit)]
  /\ UNCHANGED << vars, calls, handler >>

SynonymsNext ==
  \/ \E matches \in BOOLEAN : UpstreamEntry(matches)
  \/ \E hasQ \in BOOLEAN, limit \in 1..MaxLimit : SynonymDictionary(hasQ, limit)

SpecSynonyms == SynonymsInit /\ [][SynonymsNext]_allVars

\* C24: neither the text block nor the structured entries of a response of
\* af_synonym_dictionary holds more than limit synonym entries.
C24_AtMostLimitEntries ==
  (run.op = "synonyms" /\ run.returned) =>
    /\ Len(run.response.lines) <= run.limit
    /\ Len(run.response.structured.data) <= run.limit

(* ------------------ one call: attempts, timers, body ------------------ *)

\* What the answer of the last attempt makes of the call.
OutcomeOfLastAttempt ==
  LET a == attempts[N] IN
  CASE a.result = "aborted" -> outcome = Rejected(TimeoutError(call.url))
    [] a.result = "neterror" -> outcome = Rejected(FetchFailed)
    [] a.result = "response" /\ a.status = 429 ->
         outcome = Rejected(RateLimitError(call.url))
    [] Is2xxAnswer(N) ->
         \/ outcome.kind = "resolved"
         \/ outcome \in {Rejected(JsonSyntaxError), Rejected(BodyTerminated)}
    [] OTHER -> /\ a.result = "response"
                /\ outcome = Rejected(StatusError(call.method, a.status, call.url))

\* C25: every attempt but the last was answered with a status >= 500 while
\* budget remained, and the attempt after it runs on a budget lower by one;
\* an attempt answered in any other way is the last one, and the settled
\* call has the outcome of its last attempt.
C25_RetryOnlyAfter5xxWithBudget ==
  /\ \A k \in 1..(N - 1) :
       /\ Is5xxAnswer(k)
       /\ attempts[k].retries > 0
       /\ attempts[k + 1].retries = attempts[k].retries - 1
  /\ N >= 1 => retries = attempts[N].retries
  /\ \A k \in 1..N :
       (attempts[k].result # "pending"
        /\ ~(Is5xxAnswer(k) /\ attempts[k].retries > 0)) =>
         /\ k = N
         /\ pc \in {"body", "done"}
  /\ Settled => OutcomeOfLastAttempt

\* C25 witness: 500 then 429: rate limited after exactly two attempts.
C25_Witness ==
  /\ Settled
  /\ N = 2
  /\ attempts[1].status = 500
  /\ attempts[2].status = 429
  /\ outcome = Rejected(RateLimitError(call.url))

\* C26: the timer of an attempt is not armed any more once the next
\* attempt has been started or the body is being read, and when the call
\* has settled none of its timers is armed: nothing is left to fire.
C26_NoTimerLeaks ==
  /\ \A k \in 1..(N - 1) : abortTimers[k].st # "armed"
  /\ pc \in {"body", "done"} =>
       \A k \in 1..Len(abortTimers) : abortTimers[k].st # "armed"
  /\ Settled => ~ENABLED AbortTimerFires

\* C26 witness: a call settled after two retries, on an HTTP error.
C26_Witness ==
  /\ Settled
  /\ N = 3
  /\ attempts[3].status = 404
  /\ \A k \in 1..3 : abortTimers[k] = Cleared

\* C27: while the body of a 2xx response is read the timer of the attempt
\* is cleared; a failure of the read rejects the call with the error as it
\* was raised, neither a timeout nor an ApiError, and the attempt stays the
\* last one.
C27_BodyReadOutsideTimeout ==
  /\ pc = "body" =>
       /\ Is2xxAnswer(N)
       /\ abortTimers[N] = Cleared
  /\ (Settled /\ Is2xxAnswer(N) /\ outcome.kind = "rejected") =>
       /\ thrown # << >>
       /\ outcome.error = thrown[Len(thrown)]
       /\ outcome.error \in {JsonSyntaxError, BodyTerminated}
       /\ outcome.error.name # "ApiError"
       /\ outcome.error.props = {}
       /\ abortTimers[N] = Cleared
       /\ settles = 1
  /\ \A k \in 1..N : Is2xxAnswer(k) => k = N

\* C27 witness: after one retry a 2xx arrived whose body did not parse.
C27_Witness ==
  /\ Settled
  /\ N = 2
  /\ Is2xxAnswer(2)
  /\ outcome = Rejected(JsonSyntaxError)
  /\ abortTimers[2] = Cleared

(* --------------- af_get_taxonomy_concept: first failure --------------- *)

\* Fetch k of the handler fails in this step.
FailsNow(k) ==
  /\ k \in 1..Len(calls)
  /\ Len(calls') = Len(calls)
  /\ calls[k].out.kind = "pending"
  /\ calls'[k].out.kind = "rejected"

\* C28: in the step in which the first of the four fetches of
\* af_get_taxonomy_concept fails the handler returns the response made of
\* that failure, whatever the state of the other three; these are not
\* cancelled: a fetch in flight can still be answered and a backoff wait
\* still ends with the next attempt; no later step changes the response.
C28_FirstFailureDecides ==
  /\ [](Fanned /\ Left =>
          \A k \in 1..4 :
            /\ calls[k].phase = "fetching" =>
                 ENABLED (\E a \in AnswersFor(FanTool) : HandlerAnswer(k, a))
            /\ calls[k].phase = "backoff" => ENABLED HandlerBackoffElapses(k))
  /\ [][ /\ (Fanned /\ handler.st = "awaiting") =>
              \A k \in 1..4 :
                FailsNow(k) =>
                  /\ handler'.st = "returned"
                  /\ handler'.all = calls'[k].out
                  /\ handler'.response = ConceptCatch(calls'[k].out.error)
         /\ (Fanned /\ Left) => handler' = handler
       ]_allVars

\* C28 witness: the response was made of the failure of a fetch that was
\* answered once, while another fetch is on its third retry and a third one
\* waits in a backoff.
C28_Witness ==
  /\ Fanned
  /\ Returned
  /\ handler.all.kind = "rejected"
  /\ \E k \in 1..4 : calls[k].out = handler.all /\ calls[k].attempts = 1
  /\ \E j \in 1..4 : calls[j].phase = "fetching" /\ calls[j].attempts = 4
  /\ \E j \in 1..4 : calls[j].phase = "backoff"

(* ----------------------------- af_stream_jobs -------------------------- *)

\* The longest upstream event list of the model, and the number of batches
\* it is made of.
MaxEvents == 102
MaxBatches == 3

\* The sizes of a batch of events of one class.
BatchSizes == {1, 19, 20, 21, 80}

\* active.slice(0, 20), removed.slice(0, 20)
TextListMax == 20

\* events.slice(0, 100)
StructuredMax == 100

\* An event of the stream; id is its place in the upstream list.
StreamEvent(id, removed) == [id |-> id, removed |-> removed]

\* What the fetch resolves with: a bare array, { events: [...] }, or an
\* object without events.
StreamShapes == {"array", "wrapped", "noEvents"}

\* Array.isArray(data) ? data : (data.events ?? [])
EventsOf(data) == IF data.shape = "noEvents" THEN << >> ELSE data.events

\* events.filter((e) => e.removed)
RemovedOf(events) == SelectSeq(events, LAMBDA e : e.removed)

\* events.filter((e) => !e.removed)
ActiveOf(events) == SelectSeq(events, LAMBDA e : ~e.removed)

\* "...and N more"
MoreThan(list, max) == IF Len(list) > max THEN Len(list) - max ELSE 0

\* The lines of the text block: the two counts of the header, the listed
\* events of each class and the count behind "...and N more".
StreamLines(events) ==
  [total |-> Len(events),
   new_or_updated |-> Len(ActiveOf(events)),
   removed |-> Len(RemovedOf(events)),
   activeListed |-> SliceTo(ActiveOf(events), TextListMax),
   activeMore |-> MoreThan(ActiveOf(events), TextListMax),
   removedListed |-> SliceTo(RemovedOf(events), TextListMax),
   removedMore |-> MoreThan(RemovedOf(events), TextListMax)]

\* mutant: the structured list holds the new listings before the removed ones
StructuredEventsByClass(events) ==
  SliceTo(ActiveOf(events) \o RemovedOf(events), StructuredMax)

\* events.slice(0, 100)
StructuredEvents(events) == SliceTo(events, StructuredMax)

NoStreamResponse ==
  [kind |-> "none", lines |-> StreamLines(<< >>), structured |-> NoStructured]

\* The handler of af_stream_jobs behind its await.
StreamResponse(data) ==
  LET events == EventsOf(data) IN
  IF events = << >>
    THEN [kind |-> "empty", lines |-> StreamLines(<< >>), structured |-> NoStructured]
    ELSE [kind |-> "list", lines |-> StreamLines(events),
          structured |->
            Structured([total |-> Len(events),
                        new_or_updated |-> Len(ActiveOf(events)),
                        removed |-> Len(RemovedOf(events)),
                        events |-> StructuredEvents(events)])]

StreamInit ==
  /\ CoreIdle
  /\ calls = << >>
  /\ handler = NoHandler
  /\ run = [op |-> "stream", events |-> << >>, batches |-> 0, shape |-> "array",
            returned |-> FALSE, response |-> NoStreamResponse]

\* The upstream has n more events of one class since the date asked for.
UpstreamEvents(removed, n) ==
  /\ run.op = "stream"
  /\ ~run.returned
  /\ run.batches < MaxBatches
  /\ Len(run.events) + n <= MaxEvents
  /\ run' = [run EXCEPT !.batches = @ + 1,
                        !.events = @ \o [i \in 1..n |->
                                           StreamEvent(Len(run.events) + i, removed)]]
  /\ UNCHANGED << vars, calls, handler >>

\* af_stream_jobs is called and its fetch resolves with the events.
StreamJobs(shape) ==
  /\ run.op = "stream"
  /\ ~run.returned
  /\ run' = [run EXCEPT !.shape = shape, !.returned = TRUE,
                        !.response =
                          StreamResponse([shape |-> shape, events |-> run.events])]
  /\ UNCHANGED << vars, calls, handler >>

StreamNext ==
  \/ \E removed \in BOOLEAN, n \in BatchSizes : UpstreamEvents(removed, n)
  \/ \E shape \in StreamShapes : StreamJobs(shape)

SpecStream == StreamInit /\ [][StreamNext]_allVars

\* The places of the events of one class in the upstream list.
PlacesOf(removed) ==
  {i \in 1..Len(run.events) : run.events[i].removed = removed}

LesserOf(a, b) == IF a <= b THEN a ELSE b

\* C30: for a non-empty upstream list, bare or wrapped under events, the
\* response of af_stream_jobs counts every event in exactly one class:
\* total is the number of events received and the sum of new_or_updated and
\* removed; the structured events are the first min(total, 100) events in
\* upstream order; the text lists at most 20 events of each class, each of
\* its own class.
C30_StreamPartition ==
  (run.op = "stream" /\ run.returned
   /\ run.shape # "noEvents" /\ run.events # << >>) =>
    LET payload == run.response.structured.data
        lines == run.response.lines
    IN /\ run.response.kind = "list"
       /\ run.response.structured.present
       /\ payload.total = Len(run.events)
       /\ payload.new_or_updated = Cardinality(PlacesOf(FALSE))
       /\ payload.removed = Cardinality(PlacesOf(TRUE))
       /\ payload.total = payload.new_or_updated + payload.removed
       /\ Len(payload.events) = LesserOf(payload.total, 100)
       /\ \A i \in 1..Len(payload.events) : payload.events[i] = run.events[i]
       /\ Len(lines.activeListed) <= 20
       /\ Len(lines.removedListed) <= 20
       /\ \A i \in 1..Len(lines.activeListed) : ~lines.activeListed[i].removed
       /\ \A i \in 1..Len(lines.removedListed) : lines.removedListed[i].removed
       /\ lines.total = payload.total
       /\ lines.new_or_updated = payload.new_or_updated
       /\ lines.removed = payload.removed

\* C30 witness: 101 events wrapped under events, 21 of them removed, the
\* removed ones first.
C30_Witness ==
  /\ run.op = "stream"
  /\ run.returned
  /\ run.shape = "wrapped"
  /\ Len(run.events) = 101
  /\ run.events[1].removed
  /\ run.response.structured.data.removed = 21
  /\ run.response.structured.data.new_or_updated = 80
  /\ Len(run.response.structured.data.events) = 100
  /\ run.response.lines.activeMore = 60
  /\ run.response.lines.removedMore = 1
====
